---- MODULE Spec2Model ----
(***************************************************************************)
(* Session lifecycle of SandboxClient (k8s_agent_sandbox/sandbox_client.py) *)
(* as a state machine: claim creation, the readiness watch, the three       *)
(* connectivity strategies, the tunnel subprocess and release.              *)
(***************************************************************************)
EXTENDS Integers, Sequences, FiniteSets, TLC

VARIABLES
    api_url,               \* constructor argument api_url
    gateway_name,          \* constructor argument gateway_name
    base_url,              \* self.base_url
    claim_name,            \* self.claim_name
    sandbox_name,          \* self.sandbox_name
    pod_name,              \* self.pod_name
    annotations,           \* self.annotations
    port_forward_process,  \* self.port_forward_process: an index of procs, 0 for None
    procs,                 \* the subprocesses spawned so far
    claims,                \* SandboxClaim objects that exist in the cluster
    pc,                    \* where the caller's thread is
    result,                \* how the latest __enter__ ended
    error_stderr,          \* the subprocess stderr carried by the raised error
    elapsed,               \* sleeps taken by the port-forward wait loop
    acq,                   \* what the acquisition in progress (or the latest) did
    hist,                  \* what the session object did over its life
    last_request,          \* outcome of the latest _request call since __enter__
    tracing_manager,       \* self.tracing_manager is set (enable_tracing)
    release,               \* what the latest run of __exit__ since __enter__ did
    files,                 \* the files under /app of the sandbox runtime
    file_op,               \* the latest write, read, list or exists call
    cookie_jar,            \* router: hosts the shared httpx client holds a cookie of
    in_flight,             \* router: requests forwarded and not yet answered
    last_response,         \* router: the latest response it returned
    tool_call,             \* the latest invocation of a tool and what it returned
    tracer_provider,       \* trace_manager: _TRACER_PROVIDER and its lock
    initializing           \* the threads that call initialize_tracer

vars == <<api_url, gateway_name, base_url, claim_name, sandbox_name, pod_name,
          annotations, port_forward_process, procs, claims, pc, result,
          error_stderr, elapsed, acq, hist, last_request, tracing_manager,
          release, files, file_op, cookie_jar, in_flight, last_response,
          tool_call, tracer_provider, initializing>>

\* the state of the router, and the state of the session and its sandbox
router_vars == <<cookie_jar, in_flight, last_response>>
tracer_vars == <<tracer_provider, initializing>>
session_vars ==
    <<api_url, gateway_name, base_url, claim_name, sandbox_name, pod_name,
      annotations, port_forward_process, procs, claims, pc, result,
      error_stderr, elapsed, acq, hist, last_request, tracing_manager,
      release, files, file_op, tracer_vars>>

----------------------------------------------------------------------------
(* Bounds of the model *)

MaxInFlight == 2       \* requests the router has forwarded and not yet answered
MaxFiles == 1          \* files under /app when files are what varies
MaxEnter == 2          \* __enter__ calls on the session object
PortForwardTicks == 2  \* port_forward_ready_timeout, in sleeps of the wait loop

----------------------------------------------------------------------------
(* Values *)

NULL == "None"

POD_NAME_ANNOTATION == "agents.x-k8s.io/pod-name"

\* Python truthiness of an optional string
Truthy(x) == x # NULL /\ x # ""

\* dict.get(key) with the default None
Get(d, k) == IF k \in DOMAIN d THEN d[k] ELSE NULL

ApiUrls == {NULL, "", "http://sandbox.example"}
GatewayNames == {NULL, "gw"}
ClaimIds == {"0a", "0b"}

\* threads that construct clients with tracing, and their service names
Threads == {1, 2}
ServiceNames == {"sandbox-client", "agent"}
ForeignClaims == {"sandbox-claim-0a"}
Ports == {40001, 40002}
StderrTexts == {"bind: address in use", "lost connection to pod"}

\* self.claim_name = f"sandbox-claim-{os.urandom(4).hex()}"
ClaimName(id) == "sandbox-claim-" \o id

\* f"http://127.0.0.1:{local_port}"
TunnelUrl(port) == "http://127.0.0.1:" \o ToString(port)

\* A gateway URL with the scheme of a TLS listener
GatewayUrlHttps(ip) == "https://" \o ip

\* f"http://{ip_address}"
GatewayUrl(ip) == "http://" \o ip

EmptyDict == [k \in {} |-> NULL]

AnnotationDicts ==
    { EmptyDict,
      [k \in {POD_NAME_ANNOTATION} |-> "pod-a"],
      [k \in {POD_NAME_ANNOTATION} |-> ""] }

ConditionLists ==
    { <<>>,
      <<[type |-> "Ready", status |-> "False"]>>,
      <<[type |-> "Scheduled", status |-> "True"],
        [type |-> "Ready", status |-> "True"]>> }

EventTypes == {"ADDED", "MODIFIED", "DELETED"}

\* Sandbox events of the watch; the field selector names the claim, so the
\* object's name is the claim name when metadata carries one.
SandboxEvents ==
    [type : EventTypes, conditions : ConditionLists,
     has_name : BOOLEAN, annotations : AnnotationDicts]

AddressLists == { <<>>, <<"">>, <<"10.0.0.7", "10.0.0.8">> }

GatewayEvents == [type : EventTypes, addresses : AddressLists]

\* constructor defaults of namespace and server_port
namespace == "default"
server_port == 8888

\* Retry(total=5, status_forcelist=[...], allowed_methods=[...]) of the
\* session's HTTP adapters, and urllib3's Retry.RETRY_AFTER_STATUS_CODES
RetryTotal == 5
StatusForcelist == {500, 502, 503, 504}
AllowedMethods == {"GET", "POST", "PUT", "DELETE"}
RetryAfterStatusCodes == {413, 429, 503}

\* What one attempt of an HTTP exchange meets: a response with its status and
\* whether it has a Retry-After header, or (status 0) a connection failure.
Answers ==
    { [status |-> 0, retry_after |-> FALSE],
      [status |-> 200, retry_after |-> FALSE],
      [status |-> 404, retry_after |-> FALSE],
      [status |-> 503, retry_after |-> FALSE],
      [status |-> 429, retry_after |-> TRUE] }

\* The answers to the successive attempts of one exchange: k times the
\* answer t, then the answer f to every later attempt.
Exchange(k, t, f) == [i \in 1..(RetryTotal + 2) |-> IF i <= k THEN t ELSE f]

Exchanges ==
    { Exchange(k, t, f) : k \in {0, 1, RetryTotal}, t \in Answers, f \in Answers }

\* exchanges answered at the first attempt, with 200 or with 404
PlainExchange(http_ok) ==
    Exchange(0, [status |-> 200, retry_after |-> FALSE],
             [status |-> IF http_ok THEN 200 ELSE 404, retry_after |-> FALSE])

\* a few of them: answered at once, and answered 200 after one 503
FewExchanges ==
    { PlainExchange(TRUE), PlainExchange(FALSE),
      Exchange(1, [status |-> 503, retry_after |-> FALSE],
               [status |-> 200, retry_after |-> FALSE]) }

\* headers a caller of _request passes in kwargs
CallerHeaders ==
    { EmptyDict,
      ("Accept" :> "text/plain") @@ ("X-Sandbox-ID" :> "sandbox-claim-ff")
          @@ ("X-Sandbox-Namespace" :> "kube-system")
          @@ ("X-Sandbox-Port" :> "22") }

\* A path is the sequence of its characters. These are the paths callers
\* pass: a plain name, one with a directory, with a leading or a trailing
\* slash, with a space, with a percent sign alone, before two hex digits and
\* before a letter, and the text of an encoded slash.
AllPaths ==
    { <<"x">>, <<"x", "/", "y">>, <<"/", "x">>, <<"x", "/">>,
      <<"x", " ", "y">>, <<"%">>, <<"%", "2", "5">>, <<"x", "%", "y">>,
      <<"x", "%", "2", "F", "y">> }

\* the paths of the calls when the exchange is what varies
Paths == { <<"d", "/", "a", " ", "b">> }

\* file contents: byte strings
Contents == { <<>>, <<104, 105>> }

\* JSON bodies of the runtime's answer to POST /execute: each field present
\* with a value of its type, or absent
Bodies ==
    { [k \in ks |-> full[k]] :
          ks \in SUBSET {"stdout", "stderr", "exit_code"},
          full \in [stdout : {"out"}, stderr : {"", "err"},
                    exit_code : {0, 1}] }

\* the endpoint argument of _request: f"{route}/{path}", or the route alone
Endpoint(route, path) == [route |-> route, path |-> path]

\* no return value: the call raised, or returns nothing
NoValue == [kind |-> "none"]

\* no _request call yet. sent counts the attempts of the exchange, delivered
\* those a response answered, status is the last answer (0: none) and
\* resent_after the answers that were followed by another attempt.
NoRequest ==
    [outcome |-> "none", sent |-> 0, delivered |-> 0, status |-> 0,
     method |-> "", endpoint |-> Endpoint("", <<>>), headers |-> EmptyDict,
     resent_after |-> {}, body |-> EmptyDict, value |-> NoValue]

\* Bookkeeping of one __enter__ call: the calls it issued and what it saw
NewAcq == [created |-> FALSE, released |-> FALSE, deletes |-> 0, gw_watches |-> 0, spawns |-> 0,
           connect_tried |-> FALSE, strategy |-> {},
           ready_carried |-> FALSE, ready_seen |-> FALSE,
           exited_in_wait |-> FALSE, addressed |-> FALSE]

\* Bookkeeping of the session object over its life
NewHist == [enters |-> 0, url_changes |-> 0, ever_ok |-> FALSE,
            deleted |-> {}, created |-> {}]

----------------------------------------------------------------------------
(* Helpers translated from the code *)

\* SandboxClient.is_ready
is_ready == base_url # NULL

\* A scan that takes any Ready condition, whatever its status
ConditionsReadyAnyStatus(conditions) ==
    \E i \in 1..Len(conditions) : conditions[i].type = "Ready"

\* the scan of status.conditions in _wait_for_sandbox_ready
ConditionsReady(conditions) ==
    \E i \in 1..Len(conditions) :
        conditions[i].type = "Ready" /\ conditions[i].status = "True"

\* A pod name taken from the annotation without the fallback
PodNameOfAnnotation(annos, name) == Get(annos, POD_NAME_ANNOTATION)

\* pod name: the annotation when truthy, else the sandbox name
PodNameOf(annos, name) ==
    IF Truthy(Get(annos, POD_NAME_ANNOTATION))
    THEN Get(annos, POD_NAME_ANNOTATION)
    ELSE name

\* A selection that forgets the configured URL
SelectStrategyIgnoringUrl(url, gw) ==
    IF Truthy(gw) THEN "gateway" ELSE "tunnel"

\* STRATEGY SELECTION of __enter__
SelectStrategy(url, gw) ==
    IF Truthy(url) THEN "explicit"
    ELSE IF Truthy(gw) THEN "gateway"
    ELSE "tunnel"

\* Popen.poll() is not None
Exited(p) == procs[p].status # "running"

\* A wait loop that never polls the subprocess
TunnelStepWithoutPoll(expired, exited, conn) ==
    IF expired THEN "timeout"
    ELSE IF conn = "ok" THEN "connected"
    ELSE IF conn \in {"refused", "timeout"} THEN "retry"
    ELSE "connect_error"

\* time.sleep(0.5) of the wait loop: the monotonic clock is one tick on
Slept(t) == t + 1

\* One iteration of the port-forward wait loop: the loop condition, then the
\* liveness check, then the connect attempt.
TunnelStep(expired, exited, conn) ==
    IF expired THEN "timeout"
    ELSE IF exited THEN "crashed"
    ELSE IF conn = "ok" THEN "connected"
    ELSE IF conn \in {"refused", "timeout"} THEN "retry"
    ELSE "connect_error"

\* What socket.create_connection to 127.0.0.1:local_port can answer: the
\* connection is accepted by whichever process listens on the port
ConnectOutcomes(p) ==
    (IF \/ procs[p].status = "running" /\ procs[p].listening
        \/ procs[p].foreign
     THEN {"ok"} ELSE {"refused", "timeout"}) \cup {"oserror"}

\* How the stop step of __exit__ goes for a running subprocess: it exits
\* within the grace period, wait(timeout=2) expires and kill() ends it, or
\* terminate() or kill() raises.
StopOutcomes == {"exits", "expires", "terminate_raises", "kill_raises"}

\* How the delete call goes: the API server answers it (the claim is deleted,
\* or 404 when there is none), it answers another error status, or the call
\* fails below the API (no connection).
DeleteAnswers == {"answered", "api_error", "error"}

SpanOutcomes == {"ends", "raises"}

\* A stop step that acts on a subprocess whatever its state
StoppedProcsUnchecked(stop) ==
    IF port_forward_process # 0
    THEN [procs EXCEPT ![port_forward_process].status =
              CASE stop = "exits" -> "terminated"
                [] stop = "expires" -> "killed"
                [] OTHER -> @]
    ELSE procs

\* __exit__, first step: terminate(), wait(timeout=2), kill() on expiry.
\* On a subprocess that has exited terminate() and wait() return at once.
StoppedProcs(stop) ==
    IF port_forward_process # 0 /\ procs[port_forward_process].status = "running"
    THEN [procs EXCEPT ![port_forward_process].status =
              CASE stop = "exits" -> "terminated"
                [] stop = "expires" -> "killed"
                [] OTHER -> "running"]
    ELSE procs

\* A release that keys the delete on the sandbox name
DeleteIssuedBySandboxName == Truthy(sandbox_name)

\* __exit__, second step: the delete call is issued when claim_name is truthy
DeleteIssued == Truthy(claim_name)

\* the cluster after the delete call; a failing call leaves the claim
ClaimsAfterDelete(ok) ==
    IF DeleteIssued /\ ok THEN claims \ {claim_name} ELSE claims

\* the claim names a delete call was issued for, after __exit__ has run
DeletedAfterDelete ==
    IF DeleteIssued THEN hist.deleted \cup {claim_name} ELSE hist.deleted

\* The calls of the stop step, in order. terminate() and wait() on a
\* subprocess that has exited return at once.
StopCalls(stop) ==
    IF port_forward_process = 0 THEN <<>>
    ELSE IF Exited(port_forward_process) THEN <<"terminate", "wait">>
    ELSE CASE stop = "exits" -> <<"terminate", "wait">>
           [] stop = "expires" -> <<"terminate", "wait", "kill">>
           [] stop = "terminate_raises" -> <<"terminate">>
           [] stop = "kill_raises" -> <<"terminate", "wait", "kill">>

\* The exception that leaves the try body of the stop step
StopRaises(stop) ==
    IF /\ port_forward_process # 0
       /\ ~Exited(port_forward_process)
       /\ stop \in {"terminate_raises", "kill_raises"}
    THEN "OSError" ELSE "none"

\* The exception the delete call raises
DeleteRaises(del) ==
    CASE del = "answered" ->
             IF claim_name \in claims THEN "none" ELSE "ApiException404"
      [] del = "api_error" -> "ApiException500"
      [] del = "error" -> "MaxRetryError"

\* The exception end_lifecycle_span raises
SpanRaises(span) == IF span = "raises" THEN "RuntimeError" ELSE "none"

ApiExceptions == {"ApiException404", "ApiException500"}

\* except Exception: every exception of the model derives from Exception
CaughtAsException(exc) == exc # "none"

\* A delete step with the ApiException handler alone
DeleteCaughtApiOnly(exc) == exc \in ApiExceptions

\* the handlers of the delete step: except client.ApiException, except Exception
DeleteCaught(exc) == exc \in ApiExceptions \/ CaughtAsException(exc)

\* the delete step logs every exception but ApiException with status 404
DeleteLogged(exc) == exc # "none" /\ exc # "ApiException404"

\* Steps that run the delete call ahead of the stop step
ExitCallsDeleteFirst(stop_calls, delete_calls, span_calls) ==
    delete_calls \o stop_calls \o span_calls

\* the order of the steps of __exit__: stop, delete, end of the span
ExitCalls(stop_calls, delete_calls, span_calls) ==
    stop_calls \o delete_calls \o span_calls

\* One run of __exit__: the calls it made, the exception each step raised,
\* the steps that logged an error and whether an exception left it. A step runs when no exception has left
\* an earlier step.
ExitRun(stop, del, span) ==
    LET e1 == StopRaises(stop)
        out1 == e1 # "none" /\ ~CaughtAsException(e1)
        ran2 == ~out1 /\ DeleteIssued
        e2 == IF ran2 THEN DeleteRaises(del) ELSE "none"
        out2 == e2 # "none" /\ ~DeleteCaught(e2)
        ran3 == ~out1 /\ ~out2 /\ tracing_manager
        e3 == IF ran3 THEN SpanRaises(span) ELSE "none"
        out3 == e3 # "none" /\ ~CaughtAsException(e3)
    IN [ran |-> TRUE,
        errors |-> [stop |-> e1, delete |-> e2, span |-> e3],
        calls |-> ExitCalls(StopCalls(stop),
                            IF ran2 THEN <<"delete">> ELSE <<>>,
                            IF ran3 THEN <<"end_lifecycle_span">> ELSE <<>>),
        logged |-> {st \in {"stop"} : e1 # "none" /\ ~out1}
                   \cup {st \in {"delete"} : DeleteLogged(e2) /\ ~out2}
                   \cup {st \in {"span"} : e3 # "none" /\ ~out3},
        raised |-> out1 \/ out2 \/ out3]

\* no run of __exit__ yet
NoRelease ==
    [ran |-> FALSE,
     errors |-> [stop |-> "none", delete |-> "none", span |-> "none"],
     calls |-> <<>>, logged |-> {}, raised |-> FALSE]

----------------------------------------------------------------------------
(* Paths on the wire and the sandbox runtime (python-runtime-sandbox) *)

\* the characters urllib.parse.quote(path, safe='') escapes, of those the
\* paths of the model hold, with the two hex digits of each
PercentCodes ==
    (" " :> <<"2", "0">>) @@ ("/" :> <<"2", "F">>) @@ ("%" :> <<"2", "5">>)

RECURSIVE quote(_)
\* urllib.parse.quote(path, safe=''): letters and digits stay, every other
\* character becomes % and two hex digits
quote(path) ==
    IF path = <<>> THEN <<>>
    ELSE (IF path[1] \in DOMAIN PercentCodes
          THEN <<"%">> \o PercentCodes[path[1]]
          ELSE <<path[1]>>) \o quote(Tail(path))

\* the characters a % and these two hex digits stand for
Escaped(h1, h2) == {c \in DOMAIN PercentCodes : PercentCodes[c] = <<h1, h2>>}

RECURSIVE unquote(_)
\* urllib.parse.unquote: each % followed by two hex digits becomes the
\* character they stand for; a % that is followed by anything else stays
unquote(s) ==
    IF s = <<>> THEN <<>>
    ELSE IF s[1] = "%" /\ Len(s) >= 3 /\ Escaped(s[2], s[3]) # {}
    THEN <<CHOOSE c \in Escaped(s[2], s[3]) : TRUE>>
             \o unquote(SubSeq(s, 4, Len(s)))
    ELSE <<s[1]>> \o unquote(Tail(s))

RECURSIVE Split(_)
\* path.split("/"): the pieces between the slashes, empty ones included
Split(path) ==
    IF path = <<>> THEN << <<>> >>
    ELSE LET rest == Split(Tail(path))
         IN IF path[1] = "/" THEN << <<>> >> \o rest
            ELSE << <<path[1]>> \o rest[1] >> \o Tail(rest)

RECURSIVE Join(_)
\* "/".join(pieces)
Join(pieces) ==
    IF pieces = <<>> THEN <<>>
    ELSE IF Len(pieces) = 1 THEN pieces[1]
    ELSE pieces[1] \o <<"/">> \o Join(Tail(pieces))

\* os.path.basename: what follows the last slash
basename(path) == Split(path)[Len(Split(path))]

\* main.get_safe_path, relative to /app: leading slashes are stripped and
\* realpath drops empty pieces and a trailing slash. The paths of the model
\* hold no "." or ".." piece and /app holds no symlink, so every path stays
\* within /app.
get_safe_path(file_path) ==
    Join(SelectSeq(Split(file_path), LAMBDA piece : piece # <<>>))

\* The path parameter a FastAPI route receives: the ASGI server has decoded
\* the percent-escapes of the request path before the route is matched.
RouteParam(wire_path) == unquote(wire_path)

\* urllib.parse.unquote(encoded_file_path) in download_file, list_files, exists
DecodedPath(param) == unquote(param)

\* /app as the runtime starts: no file
NoFiles == <<>>

\* the answer of a runtime handler: nothing was retried for it
RuntimeAnswer(status) == [status |-> status, retry_after |-> FALSE]

\* main.upload_file: the file is saved as /app/<filename>; open() of /app
\* itself raises and the handler answers 500
UploadStatus(filename) == IF filename = <<>> THEN 500 ELSE 200

\* /app after upload_file
Uploaded(filename, content) ==
    [f \in DOMAIN files \cup {filename} |->
        IF f = filename THEN content ELSE files[f]]

\* main.download_file: 200 with the file, 404 when there is none
DownloadStatus(full_path) == IF full_path \in DOMAIN files THEN 200 ELSE 404

\* main.list_files: 200 for a directory (only /app itself is one), else 404
ListStatus(full_path) == IF full_path = <<>> THEN 200 ELSE 404

\* os.path.exists in main.exists
PathExists(full_path) == full_path = <<>> \/ full_path \in DOMAIN files

\* An exchange in which every answer with status 200 is the runtime's answer
\* to the request; the other answers are given before the runtime is reached
Answered(answers, status) ==
    [i \in DOMAIN answers |->
        IF answers[i].status = 200 THEN RuntimeAnswer(status) ELSE answers[i]]

\* the latest request is no write, read, list or exists call
NoFileOp ==
    [op |-> "none", path |-> <<>>, sent_path |-> <<>>, obtained |-> <<>>,
     reached |-> FALSE, status |-> 0, returned |-> NoValue,
     written |-> [path |-> <<>>, content |-> <<>>, ok |-> FALSE]]

----------------------------------------------------------------------------
(* The sandbox router (sandbox_router.py). Header values, host names and
   URLs are sequences of characters; header names are in lower case, as
   Starlette gives them. *)

DEFAULT_SANDBOX_PORT == 8888
DEFAULT_NAMESPACE == <<"d", "e", "f", "a", "u", "l", "t">>

\* the decimal digits and their values
Digits ==
    ("0" :> 0) @@ ("1" :> 1) @@ ("2" :> 2) @@ ("3" :> 3) @@ ("4" :> 4)
        @@ ("5" :> 5) @@ ("6" :> 6) @@ ("7" :> 7) @@ ("8" :> 8) @@ ("9" :> 9)

\* the letters the header values and host names of the model hold
Letters ==
    {"a", "b", "c", "d", "e", "f", "l", "n", "o", "r", "s", "t", "u", "v", "x"}

\* str.isalnum: not empty, and letters and digits only
isalnum(text) ==
    /\ text # <<>>
    /\ \A i \in DOMAIN text : text[i] \in Letters \cup DOMAIN Digits

\* namespace.replace("-", "")
WithoutHyphens(text) == SelectSeq(text, LAMBDA c : c # "-")

RECURSIVE DigitsValue(_, _)
\* the number a run of digits denotes, read after the value so far
DigitsValue(text, value) ==
    IF text = <<>> THEN value
    ELSE DigitsValue(Tail(text), 10 * value + Digits[text[1]])

\* int(text): a run of digits with an optional sign; anything else raises
\* ValueError
int(text) ==
    LET signed == text # <<>> /\ text[1] \in {"+", "-"}
        digits == IF signed THEN Tail(text) ELSE text
    IN IF digits # <<>> /\ \A i \in DOMAIN digits : digits[i] \in DOMAIN Digits
       THEN [ok |-> TRUE,
             value |-> IF signed /\ text[1] = "-"
                       THEN 0 - DigitsValue(digits, 0)
                       ELSE DigitsValue(digits, 0)]
       ELSE [ok |-> FALSE, value |-> 0]

RECURSIVE NatStr(_)
\* the digits of a natural number
NatStr(n) ==
    IF n < 10 THEN <<CHOOSE d \in DOMAIN Digits : Digits[d] = n>>
    ELSE NatStr(n \div 10)
             \o <<CHOOSE d \in DOMAIN Digits : Digits[d] = n % 10>>

\* str(port), as the f-string formats the integer
str(n) == IF n < 0 THEN <<"-">> \o NatStr(0 - n) ELSE NatStr(n)

\* the value of the first header of this name, or the default
HeaderGet(headers, name, default) ==
    LET at == {i \in DOMAIN headers : headers[i].name = name}
    IN IF at = {} THEN default
       ELSE headers[CHOOSE i \in at : \A j \in at : i <= j].value

ServiceSuffix ==
    <<".", "s", "v", "c", ".", "c", "l", "u", "s", "t", "e", "r",
      ".", "l", "o", "c", "a", "l">>

\* target_host = f"{sandbox_id}.{namespace}.svc.cluster.local"
TargetHost(sandbox_id, ns) == sandbox_id \o <<".">> \o ns \o ServiceSuffix

HttpScheme == <<"h", "t", "t", "p", ":", "/", "/">>

\* target_url = f"http://{target_host}:{port}/{full_path}"
TargetUrl(sandbox_id, ns, port, full_path) ==
    HttpScheme \o TargetHost(sandbox_id, ns) \o <<":">> \o str(port)
        \o <<"/">> \o full_path

\* the first position of text that holds one of the characters, or one past
\* its end
FirstOf(text, chars) ==
    LET at == {i \in DOMAIN text : text[i] \in chars}
    IN IF at = {} THEN Len(text) + 1
       ELSE CHOOSE i \in at : \A j \in at : i <= j

\* the last position of text that holds the character, or 0
LastOf(text, char) ==
    LET at == {i \in DOMAIN text : text[i] = char}
    IN IF at = {} THEN 0 ELSE CHOOSE i \in at : \A j \in at : i >= j

\* httpx.URL(url) for an http URL: the authority ends at the first "/", "?"
\* or "#", user information ends at its last "@", and the port follows its
\* last ":". The URL is invalid when the host is empty or holds a character
\* no host name has, or the port is no number up to 65535.
ParseUrl(url) ==
    LET rest == SubSeq(url, Len(HttpScheme) + 1, Len(url))
        authority == SubSeq(rest, 1, FirstOf(rest, {"/", "?", "#"}) - 1)
        hostport == SubSeq(authority, LastOf(authority, "@") + 1,
                           Len(authority))
        colon == LastOf(hostport, ":")
        host == IF colon = 0 THEN hostport
                ELSE SubSeq(hostport, 1, colon - 1)
        port_text == IF colon = 0 THEN <<>>
                     ELSE SubSeq(hostport, colon + 1, Len(hostport))
        port == int(port_text)
    IN [ok |-> /\ host # <<>>
               /\ \A i \in DOMAIN host :
                      host[i] \in Letters \cup DOMAIN Digits \cup {"-", "."}
               /\ port_text = <<>>
                     \/ (port.ok /\ port_text[1] \notin {"+", "-"}
                         /\ port.value <= 65535),
        host |-> host,
        port |-> IF port_text = <<>> THEN 80 ELSE port.value]

\* an HTTP header line
Header(name, value) == [name |-> name, value |-> value]

\* the request has a header of this name
HasHeader(headers, name) == \E i \in DOMAIN headers : headers[i].name = name

\* request.headers.get("X-Sandbox-ID"): None when the header is absent; the
\* handler tests it for truth, and None and "" are both false
SandboxId(req) == HeaderGet(req.headers, "x-sandbox-id", <<>>)

\* request.headers.get("X-Sandbox-Namespace", DEFAULT_NAMESPACE)
Namespace(req) ==
    HeaderGet(req.headers, "x-sandbox-namespace", DEFAULT_NAMESPACE)

\* int(request.headers.get("X-Sandbox-Port", DEFAULT_SANDBOX_PORT))
Port(req) ==
    IF HasHeader(req.headers, "x-sandbox-port")
    THEN int(HeaderGet(req.headers, "x-sandbox-port", <<>>))
    ELSE [ok |-> TRUE, value |-> DEFAULT_SANDBOX_PORT]

\* the detail of the HTTPException(400) the validation raises, "" when the
\* request passes
Rejection(req) ==
    IF SandboxId(req) = <<>> THEN "X-Sandbox-ID header is required."
    ELSE IF ~isalnum(WithoutHyphens(Namespace(req)))
    THEN "Invalid namespace format."
    ELSE IF ~Port(req).ok THEN "Invalid port format."
    ELSE ""

\* A resolution that reuses the target of a request in flight
ResolveTargetPooled(req) ==
    IF in_flight # {} THEN (CHOOSE e \in in_flight : TRUE).forward.target
    ELSE TargetUrl(SandboxId(req), Namespace(req), Port(req).value, req.path)

\* target_url of proxy_request
ResolveTarget(req) ==
    TargetUrl(SandboxId(req), Namespace(req), Port(req).value, req.path)

\* the dict comprehension over request.headers.items(): the Host header is
\* left out, and of several headers of one name the last value stays
WithoutHost(headers) ==
    LET names == {headers[i].name : i \in DOMAIN headers} \ {"host"}
    IN [n \in names |->
           headers[CHOOSE i \in DOMAIN headers :
                      /\ headers[i].name = n
                      /\ \A j \in DOMAIN headers :
                             headers[j].name = n => j <= i].value]

\* the characters of "gzip"
Gzip == <<"g", "z", "i", "p">>

\* the headers httpx.AsyncClient gives a request that brings none of the name
ClientDefaults ==
    ("accept" :> <<"*", "/", "*">>) @@ ("accept-encoding" :> Gzip)
        @@ ("connection" :> <<"k", "e", "e", "p", "-", "a", "l", "i", "v", "e">>)
        @@ ("user-agent" :> <<"h", "t", "t", "p", "x">>)

\* client.build_request(method, url, headers, content): the headers given,
\* the client's defaults for the names they lack, the Host of the URL (the
\* port is named unless it is the default port of the scheme), and the
\* cookie the client holds for the host when the request brings none
BuiltHeaders(headers, parsed) ==
    LET own == WithoutHost(headers)
        jar == IF parsed.host \in cookie_jar /\ "cookie" \notin DOMAIN own
               THEN ("cookie" :> <<"j">>) ELSE <<>>
        host == IF parsed.port = 80 THEN parsed.host
                ELSE parsed.host \o <<":">> \o str(parsed.port)
    IN own @@ jar @@ ("host" :> host) @@ ClientDefaults

\* a response body: JSON or bytes
JsonBody(value) == [kind |-> "json", value |-> value]
BytesBody(data) == [kind |-> "bytes", data |-> data]

\* nothing was forwarded
NoForward ==
    [target |-> <<>>, contacted |-> <<>>, forwarded_method |-> "",
     forwarded_headers |-> <<>>, forwarded_body |-> <<>>]

\* no upstream outcome
NoUpstream ==
    [kind |-> "none", status |-> 0, headers |-> <<>>, content |-> <<>>,
     received |-> 0]

\* a response of the router: the handler that gave it, the request it
\* answers, what was forwarded for it, the upstream outcome, and the status,
\* headers and body the client receives; named is the sandbox id the detail
\* of a 502 names
Response(kind, req, forward, upstream, status, named, headers, body) ==
    [kind |-> kind, request |-> req, forward |-> forward,
     upstream |-> upstream, status |-> status, named |-> named,
     headers |-> headers, body |-> body]

\* no response yet
NoResponse ==
    Response("none",
             [method |-> "", path |-> <<>>, headers |-> <<>>, body |-> <<>>],
             NoForward, NoUpstream, 0, <<>>, <<>>, BytesBody(<<>>))

\* no tool was invoked yet
NoToolCall ==
    [tool |-> "none", argument |-> "", acquire |-> "none", write |-> "none",
     answer |-> EmptyDict, execute |-> "none", release |-> "none",
     result |-> NoValue, returned |-> [status |-> "none"]]

----------------------------------------------------------------------------
(* Initial state: SandboxClient.__init__ *)

Constructed(enable_tracing) ==
    /\ tracing_manager = enable_tracing
    /\ release = NoRelease
    /\ api_url \in ApiUrls
    /\ gateway_name \in GatewayNames
    /\ base_url = api_url
    /\ claim_name = NULL
    /\ sandbox_name = NULL
    /\ pod_name = NULL
    /\ annotations = [k \in {NULL} |-> NULL]   \* None, not yet a dict
    /\ port_forward_process = 0
    /\ procs = <<>>
    /\ claims = ForeignClaims
    /\ pc = "idle"
    /\ result = "none"
    /\ error_stderr = NULL
    /\ elapsed = 0
    /\ acq = NewAcq
    /\ hist = NewHist
    /\ last_request = NoRequest
    /\ files = NoFiles
    /\ file_op = NoFileOp
    /\ cookie_jar = {}
    /\ in_flight = {}
    /\ last_response = NoResponse
    /\ tool_call = NoToolCall

\* trace_manager as imported, with or without the OpenTelemetry packages
Imported(available) ==
    /\ tracer_provider = [available |-> available, provider |-> NULL,
                          lock |-> 0, constructed |-> 0, installed |-> 0,
                          registered |-> 0]
    /\ initializing = [t \in Threads |->
                           [pc |-> "returned", service_name |-> NULL]]

\* a session constructed with the default enable_tracing=False
Init == Constructed(FALSE) /\ Imported(TRUE)

\* a session constructed with or without tracing
InitTracing ==
    \E enable_tracing \in BOOLEAN : Constructed(enable_tracing) /\ Imported(TRUE)

----------------------------------------------------------------------------
(* Acquisition: SandboxClient.__enter__ and the methods it calls *)

\* An __enter__ that goes on to the readiness watch whatever the create
\* call answered
EnterThenWatch(id, create_ok) ==
    /\ pc = "idle"
    /\ hist.enters < MaxEnter
    /\ claim_name' = ClaimName(id)
    /\ release' = NoRelease
    /\ hist' = [hist EXCEPT !.enters = @ + 1]
    /\ error_stderr' = NULL
    /\ last_request' = NoRequest
    /\ files' = NoFiles
    /\ file_op' = NoFileOp
    /\ claims' = IF create_ok THEN claims \cup {ClaimName(id)} ELSE claims
    /\ acq' = [NewAcq EXCEPT !.created = create_ok /\ ClaimName(id) \notin claims]
    /\ pc' = "wait_ready"
    /\ result' = "none"
    /\ UNCHANGED <<tracer_vars, tool_call, router_vars, tracing_manager,
                   api_url, gateway_name, base_url, sandbox_name, pod_name,
                   annotations, port_forward_process, procs, elapsed>>

\* __enter__ up to the start of the readiness watch: _create_claim picks the
\* name and submits the claim; a name that exists is answered 409.
Enter(id, create_ok) ==
    /\ pc = "idle"
    /\ hist.enters < MaxEnter
    /\ claim_name' = ClaimName(id)
    /\ release' = NoRelease
    /\ hist' = [hist EXCEPT !.enters = @ + 1,
                    !.created = IF create_ok /\ ClaimName(id) \notin claims
                                THEN @ \cup {ClaimName(id)} ELSE @]
    /\ error_stderr' = NULL
    /\ last_request' = NoRequest
    /\ files' = NoFiles
    /\ file_op' = NoFileOp
    /\ IF create_ok /\ ClaimName(id) \notin claims
       THEN /\ claims' = claims \cup {ClaimName(id)}
            /\ acq' = [NewAcq EXCEPT !.created = TRUE]
            /\ pc' = "wait_ready"
            /\ result' = "none"
       ELSE /\ claims' = claims
            /\ acq' = NewAcq
            /\ pc' = "idle"
            /\ result' = IF ClaimName(id) \in claims
                         THEN "create_conflict" ELSE "create_error"
    /\ UNCHANGED <<tracer_vars, tool_call, router_vars, tracing_manager,
                   api_url, gateway_name, base_url, sandbox_name, pod_name,
                   annotations, port_forward_process, procs, elapsed>>

\* One event of the sandbox watch. A Ready event ends the wait and __enter__
\* goes on to the strategy selection: nothing, the gateway watch, or the
\* free port and the kubectl port-forward subprocess.
SandboxEvent(ev, port, spawn_ok) ==
    /\ pc = "wait_ready"
    /\ LET carried == ConditionsReady(ev.conditions)
           ready == ev.type \in {"ADDED", "MODIFIED"} /\ carried
           name == IF ev.has_name THEN claim_name ELSE NULL
           strategy == SelectStrategy(base_url, gateway_name)
           seen == [acq EXCEPT !.ready_carried = @ \/ carried,
                               !.ready_seen = @ \/ ready]
       IN
       IF ~ready THEN
           /\ acq' = seen
           /\ UNCHANGED <<sandbox_name, pod_name, annotations, pc, result,
                          port_forward_process, procs, elapsed, hist>>
       ELSE IF ~Truthy(name) THEN
           /\ sandbox_name' = name
           /\ result' = "no_name"
           /\ pc' = "idle"
           /\ acq' = seen
           /\ UNCHANGED <<pod_name, annotations, port_forward_process, procs,
                          elapsed, hist>>
       ELSE
           /\ sandbox_name' = name
           /\ annotations' = ev.annotations
           /\ pod_name' = PodNameOf(ev.annotations, name)
           /\ CASE strategy = "explicit" ->
                    /\ acq' = [seen EXCEPT !.strategy = @ \cup {"explicit"}]
                    /\ result' = "ok"
                    /\ pc' = "idle"
                    /\ hist' = [hist EXCEPT !.ever_ok = TRUE]
                    /\ UNCHANGED <<port_forward_process, procs, elapsed>>
                [] strategy = "gateway" /\ Truthy(base_url) ->
                    \* _wait_for_gateway_ip returns at once on a set base_url
                    /\ acq' = [seen EXCEPT !.strategy = @ \cup {"gateway"}]
                    /\ result' = "ok"
                    /\ pc' = "idle"
                    /\ hist' = [hist EXCEPT !.ever_ok = TRUE]
                    /\ UNCHANGED <<port_forward_process, procs, elapsed>>
                [] strategy = "gateway" /\ ~Truthy(base_url) ->
                    /\ acq' = [seen EXCEPT !.strategy = @ \cup {"gateway"},
                                           !.gw_watches = @ + 1]
                    /\ pc' = "wait_gateway"
                    /\ UNCHANGED <<result, hist, port_forward_process, procs,
                                   elapsed>>
                [] strategy = "tunnel" /\ spawn_ok ->
                    /\ acq' = [seen EXCEPT !.strategy = @ \cup {"tunnel"},
                                           !.spawns = @ + 1]
                    /\ procs' = Append(procs, [port |-> port,
                                               status |-> "running",
                                               listening |-> FALSE,
                                               foreign |-> FALSE,
                                               stderr |-> ""])
                    /\ port_forward_process' = Len(procs) + 1
                    /\ elapsed' = 0
                    /\ pc' = "tunnel_loop"
                    /\ UNCHANGED <<result, hist>>
                [] strategy = "tunnel" /\ ~spawn_ok ->
                    /\ acq' = [seen EXCEPT !.strategy = @ \cup {"tunnel"}]
                    /\ result' = "spawn_error"
                    /\ pc' = "idle"
                    /\ UNCHANGED <<hist, port_forward_process, procs, elapsed>>
    /\ UNCHANGED <<tracer_vars, tool_call, router_vars, files, file_op, tracing_manager, release,
                   api_url, gateway_name, base_url, claim_name, claims,
                   error_stderr, last_request>>

\* The sandbox watch ends without a Ready event: __exit__, then TimeoutError
SandboxWatchEnd(stop, del) ==
    /\ pc = "wait_ready"
    /\ procs' = StoppedProcs(stop)
    /\ claims' = ClaimsAfterDelete(del = "answered")
    /\ release' = ExitRun(stop, del, "ends")
    /\ acq' = [acq EXCEPT !.deletes = IF DeleteIssued THEN @ + 1 ELSE @]
    /\ hist' = [hist EXCEPT !.deleted = DeletedAfterDelete]
    /\ result' = "ready_timeout"
    /\ pc' = "idle"
    /\ UNCHANGED <<tracer_vars, tool_call, router_vars, files, file_op, tracing_manager,
                   api_url, gateway_name, base_url, claim_name, sandbox_name,
                   pod_name, annotations, port_forward_process, error_stderr,
                   elapsed, last_request>>

\* The watch stream raises (an API error): nothing catches it in __enter__
SandboxWatchError ==
    /\ pc = "wait_ready"
    /\ result' = "watch_error"
    /\ pc' = "idle"
    /\ UNCHANGED <<tracer_vars, tool_call, router_vars, files, file_op, tracing_manager, release,
                   api_url, gateway_name, base_url, claim_name, sandbox_name,
                   pod_name, annotations, port_forward_process, procs, claims,
                   error_stderr, elapsed, acq, hist, last_request>>

\* One event of the gateway watch of _wait_for_gateway_ip: the first event
\* whose first address has a value sets base_url.
GatewayEvent(ev) ==
    /\ pc = "wait_gateway"
    /\ IF /\ ev.type \in {"ADDED", "MODIFIED"}
          /\ ev.addresses # <<>>
          /\ Truthy(ev.addresses[1])
       THEN /\ base_url' = GatewayUrl(ev.addresses[1])
            /\ hist' = [hist EXCEPT !.ever_ok = TRUE,
                            !.url_changes =
                                IF GatewayUrl(ev.addresses[1]) # base_url
                                THEN @ + 1 ELSE @]
            /\ result' = "ok"
            /\ pc' = "idle"
       ELSE UNCHANGED <<base_url, hist, result, pc>>
    /\ acq' = [acq EXCEPT !.addressed =
                   @ \/ (ev.type \in {"ADDED", "MODIFIED"} /\ ev.addresses # <<>>)]
    /\ UNCHANGED <<tracer_vars, tool_call, router_vars, files, file_op, tracing_manager, release,
                   api_url, gateway_name, claim_name, sandbox_name, pod_name,
                   annotations, port_forward_process, procs, claims,
                   error_stderr, elapsed, last_request>>

\* The gateway watch ends: TimeoutError when base_url is still unset
GatewayWatchEnd ==
    /\ pc = "wait_gateway"
    /\ result' = IF ~Truthy(base_url) THEN "gateway_timeout" ELSE "ok"
    /\ pc' = "idle"
    /\ UNCHANGED <<tracer_vars, tool_call, router_vars, files, file_op, tracing_manager, release,
                   api_url, gateway_name, base_url, claim_name, sandbox_name,
                   pod_name, annotations, port_forward_process, procs, claims,
                   error_stderr, elapsed, acq, hist, last_request>>

\* The gateway watch stream raises
GatewayWatchError ==
    /\ pc = "wait_gateway"
    /\ result' = "watch_error"
    /\ pc' = "idle"
    /\ UNCHANGED <<tracer_vars, tool_call, router_vars, files, file_op, tracing_manager, release,
                   api_url, gateway_name, base_url, claim_name, sandbox_name,
                   pod_name, annotations, port_forward_process, procs, claims,
                   error_stderr, elapsed, acq, hist, last_request>>

\* One iteration of the wait loop of _start_and_wait_for_port_forward, and
\* the __exit__ and TimeoutError that follow the loop when the time is up.
TunnelIterate(conn, stop, del) ==
    /\ pc = "tunnel_loop"
    /\ conn \in ConnectOutcomes(port_forward_process)
    /\ LET p == port_forward_process
           step == TunnelStep(elapsed >= PortForwardTicks, Exited(p), conn)
           tried == [acq EXCEPT !.connect_tried = TRUE]
       IN
       CASE step = "timeout" ->
                /\ procs' = StoppedProcs(stop)
                /\ claims' = ClaimsAfterDelete(del = "answered")
                /\ release' = ExitRun(stop, del, "ends")
                /\ acq' = [acq EXCEPT !.connect_tried = FALSE,
                               !.deletes = IF DeleteIssued THEN @ + 1 ELSE @]
                /\ hist' = [hist EXCEPT !.deleted = DeletedAfterDelete]
                /\ result' = "tunnel_timeout"
                /\ pc' = "idle"
                /\ elapsed' = 0
                /\ UNCHANGED <<base_url, error_stderr>>
         [] step = "crashed" ->
                /\ result' = "tunnel_crashed"
                /\ error_stderr' = procs[p].stderr
                /\ acq' = [acq EXCEPT !.connect_tried = FALSE]
                /\ pc' = "idle"
                /\ elapsed' = 0
                /\ UNCHANGED <<base_url, procs, claims, hist, release>>
         [] step = "connected" ->
                /\ base_url' = TunnelUrl(procs[p].port)
                /\ hist' = [hist EXCEPT !.ever_ok = TRUE,
                                !.url_changes =
                                    IF TunnelUrl(procs[p].port) # base_url
                                    THEN @ + 1 ELSE @]
                /\ acq' = tried
                /\ result' = "ok"
                /\ pc' = "idle"
                /\ elapsed' = 0
                /\ UNCHANGED <<procs, claims, error_stderr, release>>
         [] step = "retry" ->
                /\ elapsed' = Slept(elapsed)
                /\ acq' = tried
                /\ UNCHANGED <<base_url, procs, claims, hist, result, pc,
                               error_stderr, release>>
         [] step = "connect_error" ->
                /\ result' = "connect_error"
                /\ acq' = tried
                /\ pc' = "idle"
                /\ elapsed' = 0
                /\ UNCHANGED <<base_url, procs, claims, hist, error_stderr,
                               release>>
    /\ UNCHANGED <<tracer_vars, tool_call, router_vars, files, file_op, tracing_manager,
                   api_url, gateway_name, claim_name, sandbox_name, pod_name,
                   annotations, port_forward_process, last_request>>

----------------------------------------------------------------------------
(* The subprocess, as the operating system runs it *)

\* The session's kubectl port-forward exits by itself, leaving text on
\* stderr. (A process whose handle the session has lost is no longer read.)
ProcessExit(p, text) ==
    /\ p # 0
    /\ procs[p].status = "running"
    /\ procs' = [procs EXCEPT ![p].status = "exited", ![p].stderr = text,
                              ![p].listening = FALSE]
    /\ acq' = [acq EXCEPT !.exited_in_wait = @ \/ (pc = "tunnel_loop")]
    /\ UNCHANGED <<tracer_vars, tool_call, router_vars, files, file_op, tracing_manager, release,
                   api_url, gateway_name, base_url, claim_name, sandbox_name,
                   pod_name, annotations, port_forward_process, claims, pc,
                   result, error_stderr, elapsed, hist, last_request>>

\* kubectl port-forward starts to listen on the local port
ProcessListen(p) ==
    /\ p # 0
    /\ procs[p].status = "running"
    /\ ~procs[p].listening
    /\ ~procs[p].foreign
    /\ procs' = [procs EXCEPT ![p].listening = TRUE]
    /\ UNCHANGED <<tracer_vars, tool_call, router_vars, files, file_op, tracing_manager, release,
                   api_url, gateway_name, base_url, claim_name, sandbox_name,
                   pod_name, annotations, port_forward_process, claims, pc,
                   result, error_stderr, elapsed, acq, hist,
                   last_request>>

\* Another local process binds the port that _get_free_port returned and
\* closed, while the subprocess of the session does not listen on it
ForeignListen(p) ==
    /\ p # 0
    /\ ~(procs[p].status = "running" /\ procs[p].listening)
    /\ ~procs[p].foreign
    /\ procs' = [procs EXCEPT ![p].foreign = TRUE]
    /\ UNCHANGED <<tracer_vars, tool_call, router_vars, files, file_op, tracing_manager, release,
                   api_url, gateway_name, base_url, claim_name, sandbox_name,
                   pod_name, annotations, port_forward_process, claims, pc,
                   result, error_stderr, elapsed, acq, hist,
                   last_request>>

----------------------------------------------------------------------------
(* Release and transport *)

\* SandboxClient.__exit__ called by the caller: stop the subprocess, delete
\* the claim, end the lifecycle span; failures are logged.
Exit(stop, del, span) ==
    /\ pc = "idle"
    /\ procs' = StoppedProcs(stop)
    /\ claims' = ClaimsAfterDelete(del = "answered")
    /\ release' = ExitRun(stop, del, span)
    /\ hist' = [hist EXCEPT !.deleted = DeletedAfterDelete]
    /\ acq' = [acq EXCEPT !.released = TRUE]
    /\ UNCHANGED <<tracer_vars, tool_call, router_vars, files, file_op, tracing_manager,
                   api_url, gateway_name, base_url, claim_name, sandbox_name,
                   pod_name, annotations, port_forward_process, pc, result,
                   error_stderr, elapsed, last_request>>

\* Retry._is_method_retryable
is_method_retryable(method) == method \in AllowedMethods

\* Retry.is_retry with the default respect_retry_after_header=True
is_retry(method, status_code, has_retry_after, total) ==
    /\ is_method_retryable(method)
    /\ \/ status_code \in StatusForcelist
       \/ /\ total # 0
          /\ has_retry_after
          /\ status_code \in RetryAfterStatusCodes

\* An adapter that re-sends while total is not below -1
is_exhausted_late(total) == total < -1

\* Retry.is_exhausted, for the one counter the session sets
is_exhausted(total) == total < 0

RECURSIVE Send(_, _, _, _)
\* session.request under the adapter's Retry: attempt i, with `total` retries
\* left. A connection failure and a response is_retry accepts go through
\* Retry.increment, which raises when the retries are exhausted; any other
\* response is returned.
Send(method, answers, i, total) ==
    LET a == answers[i]
        again == \/ a.status = 0
                 \/ is_retry(method, a.status, a.retry_after, total)
    IN IF ~again
       THEN [sent |-> i, final |-> a.status, raised |-> "none",
             resent_after |-> {}]
       ELSE IF is_exhausted(total - 1)
       THEN [sent |-> i, final |-> a.status,
             raised |-> IF a.status = 0 THEN "ConnectionError"
                        ELSE "RetryError",
             resent_after |-> {}]
       ELSE LET rest == Send(method, answers, i + 1, total - 1)
            IN [rest EXCEPT !.resent_after = @ \cup {a}]

\* the attempts of an exchange that a response answered
Delivered(answers, sent) ==
    Cardinality({i \in 1..sent : answers[i].status # 0})

\* response.raise_for_status()
raise_for_status(status) == status >= 400 /\ status < 600

\* the three assignments to headers[...] of _request
SetRoutingHeaders(hdrs) ==
    ("X-Sandbox-ID" :> claim_name)
        @@ ("X-Sandbox-Namespace" :> namespace)
        @@ ("X-Sandbox-Port" :> ToString(server_port))
        @@ hdrs

\* the headers requests puts on the wire: it drops a header set to None
OnWire(headers) ==
    [k \in {h \in DOMAIN headers : headers[h] # NULL} |-> headers[k]]

\* A _request that never looks at the subprocess
PortForwardDiedUnchecked == FALSE

\* the liveness check of _request: a subprocess is owned and poll() is not None
PortForwardDied ==
    port_forward_process # 0 /\ Exited(port_forward_process)

\* How a _request call ends, for a subprocess that stays as it is: the
\* readiness guard, the tunnel liveness check, then the exchange. requests
\* refuses a URL without a scheme before it sends anything.
RequestOutcome(method, endpoint, hdrs, answers) ==
    LET call == [NoRequest EXCEPT !.method = method, !.endpoint = endpoint]
    IN IF ~is_ready
       THEN [call EXCEPT !.outcome = "not_ready"]
       ELSE IF PortForwardDied
       THEN [call EXCEPT !.outcome = "tunnel_crashed"]
       ELSE IF ~Truthy(base_url)
       THEN [call EXCEPT !.outcome = "failed"]
       ELSE LET x == Send(method, answers, 1, RetryTotal)
            IN [call EXCEPT
                   !.outcome = IF x.raised = "none"
                                  /\ ~raise_for_status(x.final)
                               THEN "ok" ELSE "failed",
                   !.sent = x.sent,
                   !.status = x.final,
                   !.delivered = Delivered(answers, x.sent),
                   !.headers = OnWire(SetRoutingHeaders(hdrs)),
                   !.resent_after = x.resent_after]

\* A result model whose exit_code defaults to 0
ExecutionResultZeroDefault(response_data) ==
    [kind |-> "ExecutionResult",
     stdout |-> IF "stdout" \in DOMAIN response_data
                THEN response_data["stdout"] ELSE "",
     stderr |-> IF "stderr" \in DOMAIN response_data
                THEN response_data["stderr"] ELSE "",
     exit_code |-> IF "exit_code" \in DOMAIN response_data
                   THEN response_data["exit_code"] ELSE 0]

\* ExecutionResult(**response_data): absent fields take the model's defaults
ExecutionResult(response_data) ==
    [kind |-> "ExecutionResult",
     stdout |-> IF "stdout" \in DOMAIN response_data
                THEN response_data["stdout"] ELSE "",
     stderr |-> IF "stderr" \in DOMAIN response_data
                THEN response_data["stderr"] ELSE "",
     exit_code |-> IF "exit_code" \in DOMAIN response_data
                   THEN response_data["exit_code"] ELSE -1]

\* file_op after a call that is not a file operation: the latest write stays
OtherOp == [NoFileOp EXCEPT !.written = file_op.written]

\* A crash report that drops the handle of the subprocess it reports
CommunicateAndForget(p, crashed) == IF crashed THEN 0 ELSE p

\* self.port_forward_process.communicate() of the crash reports of _request:
\* the output of the exited subprocess is read, and the attribute keeps the
\* handle
Communicate(p, crashed) == p

\* A call of _request by a public operation. exit_text is the stderr of the
\* subprocess when it exits while the exchange is under way, NULL when it
\* does not; body is what response.json() gives on success and decoded the
\* value the operation makes of it.
TransportCall(method, endpoint, hdrs, answers, exit_text, body, decoded) ==
    /\ pc = "idle"
    /\ LET p == port_forward_process
           out == RequestOutcome(method, endpoint, hdrs, answers)
           dies == /\ exit_text # NULL
                   /\ p # 0
                   /\ out.outcome \in {"ok", "failed"}
       IN /\ procs' = IF dies
                      THEN [procs EXCEPT ![p].status = "exited",
                                         ![p].stderr = exit_text,
                                         ![p].listening = FALSE]
                      ELSE procs
          /\ last_request' =
                 IF out.outcome = "ok"
                 THEN [out EXCEPT !.body = body, !.value = decoded]
                 ELSE IF dies
                 THEN [out EXCEPT !.outcome = "tunnel_crashed_during"]
                 ELSE out
          /\ error_stderr' =
                 IF out.outcome = "tunnel_crashed" THEN procs[p].stderr
                 ELSE IF dies /\ out.outcome = "failed" THEN exit_text
                 ELSE error_stderr
          /\ port_forward_process' =
                 Communicate(p, out.outcome = "tunnel_crashed"
                                    \/ (dies /\ out.outcome = "failed"))
    /\ UNCHANGED <<tracer_vars, tool_call, router_vars, tracing_manager, release,
                   api_url, gateway_name, base_url, claim_name, sandbox_name,
                   pod_name, annotations, claims,
                   pc, result, elapsed, acq, hist>>

\* SandboxClient._request called directly, with headers of the caller's
Request(method, endpoint, hdrs, answers, exit_text) ==
    /\ TransportCall(method, Endpoint(endpoint, <<>>), hdrs, answers,
                     exit_text, EmptyDict, NoValue)
    /\ file_op' = OtherOp
    /\ UNCHANGED files

\* SandboxClient.run
Run(answers, exit_text, body) ==
    /\ TransportCall("POST", Endpoint("execute", <<>>), EmptyDict, answers,
                     exit_text, body, ExecutionResult(body))
    /\ file_op' = OtherOp
    /\ UNCHANGED files

\* the runtime handled the request: one of the attempts sent was let through
Reached(answers, sent) == \E i \in 1..sent : answers[i].status = 200

\* The record of a file operation: the path passed, the path put into the
\* URL, the path (write: the file name) the runtime obtained, the last
\* status, what the call returned, and the latest write that succeeded.
FileOp(op, path, sent_path, obtained, answers, out, returned, written) ==
    [op |-> op, path |-> path, sent_path |-> sent_path,
     reached |-> Reached(answers, out.sent),
     obtained |-> IF Reached(answers, out.sent) THEN obtained ELSE <<>>,
     status |-> out.status,
     returned |-> IF out.outcome = "ok" THEN returned ELSE NoValue,
     written |-> written]

\* SandboxClient.write: the content is uploaded under the base name of the
\* path, and main.upload_file saves it
Write(path, content, answers, exit_text) ==
    LET filename == basename(path)
        given == Answered(answers, UploadStatus(filename))
        out == RequestOutcome("POST", Endpoint("upload", <<>>), EmptyDict,
                              given)
        saved == Reached(answers, out.sent) /\ UploadStatus(filename) = 200
    IN /\ TransportCall("POST", Endpoint("upload", <<>>), EmptyDict, given,
                        exit_text, EmptyDict, NoValue)
       /\ files' = IF saved THEN Uploaded(filename, content) ELSE files
       /\ file_op' = FileOp("write", path, <<>>, filename, answers, out,
                            NoValue,
                            IF out.outcome = "ok"
                            THEN [path |-> path, content |-> content,
                                  ok |-> TRUE]
                            ELSE file_op.written)

\* SandboxClient.read and main.download_file
Read(path, answers, exit_text) ==
    LET sent_path == quote(path)
        decoded_path == DecodedPath(RouteParam(sent_path))
        full_path == get_safe_path(decoded_path)
        given == Answered(answers, DownloadStatus(full_path))
        out == RequestOutcome("GET", Endpoint("download", sent_path),
                              EmptyDict, given)
        content == IF full_path \in DOMAIN files
                   THEN [kind |-> "bytes", data |-> files[full_path]]
                   ELSE NoValue
    IN /\ TransportCall("GET", Endpoint("download", sent_path), EmptyDict,
                        given, exit_text, EmptyDict, content)
       /\ file_op' = FileOp("read", path, sent_path, decoded_path, answers,
                            out, content, file_op.written)
       /\ UNCHANGED files

\* SandboxClient.list and main.list_files
List(path, answers, exit_text) ==
    LET sent_path == quote(path)
        decoded_path == DecodedPath(RouteParam(sent_path))
        full_path == get_safe_path(decoded_path)
        given == Answered(answers, ListStatus(full_path))
        out == RequestOutcome("GET", Endpoint("list", sent_path), EmptyDict,
                              given)
        entries == [kind |-> "entries", names |-> DOMAIN files]
    IN /\ TransportCall("GET", Endpoint("list", sent_path), EmptyDict, given,
                        exit_text, EmptyDict, entries)
       /\ file_op' = FileOp("list", path, sent_path, decoded_path, answers,
                            out, entries, file_op.written)
       /\ UNCHANGED files

\* SandboxClient.exists and main.exists
Exists(path, answers, exit_text) ==
    LET sent_path == quote(path)
        decoded_path == DecodedPath(RouteParam(sent_path))
        full_path == get_safe_path(decoded_path)
        out == RequestOutcome("GET", Endpoint("exists", sent_path), EmptyDict,
                              answers)
        exists == [kind |-> "bool", exists |-> PathExists(full_path)]
    IN /\ TransportCall("GET", Endpoint("exists", sent_path), EmptyDict,
                        answers, exit_text, EmptyDict, exists)
       /\ file_op' = FileOp("exists", path, sent_path, decoded_path, answers,
                            out, exists, file_op.written)
       /\ UNCHANGED files

\* A report that also counts output on stderr as a failure
sandbox_result_by_stderr(execution_result) ==
    [status |-> IF execution_result.exit_code = 0
                   /\ execution_result.stderr = ""
                THEN "success" ELSE "failure",
     exit_code |-> execution_result.exit_code,
     stdout |-> execution_result.stdout,
     stderr |-> execution_result.stderr]

\* tools.sandbox_result_to_json
sandbox_result_to_json(execution_result) ==
    [status |-> IF execution_result.exit_code = 0
                THEN "success" ELSE "failure",
     exit_code |-> execution_result.exit_code,
     stdout |-> execution_result.stdout,
     stderr |-> execution_result.stderr]

\* tools.sandbox_error_to_json
sandbox_error_to_json(error) == [status |-> "error", stderr |-> error]

\* What a tool makes of the latest run() call: its result, or the error it
\* raised
ToolReport ==
    IF last_request.outcome = "ok"
    THEN sandbox_result_to_json(last_request.value)
    ELSE sandbox_error_to_json(last_request.outcome)

----------------------------------------------------------------------------

Next ==
    \/ \E id \in ClaimIds, create_ok \in BOOLEAN : Enter(id, create_ok)
    \/ \E ev \in SandboxEvents, port \in Ports, spawn_ok \in BOOLEAN :
           SandboxEvent(ev, port, spawn_ok)
    \/ \E stop \in {"exits", "expires"}, del \in {"answered", "api_error"} :
           SandboxWatchEnd(stop, del)
    \/ SandboxWatchError
    \/ \E ev \in GatewayEvents : GatewayEvent(ev)
    \/ GatewayWatchEnd
    \/ GatewayWatchError
    \/ \E conn \in {"ok", "refused", "timeout", "oserror"},
          stop \in {"exits", "expires"}, del \in {"answered", "api_error"} :
           TunnelIterate(conn, stop, del)
    \/ \E text \in StderrTexts : ProcessExit(port_forward_process, text)
    \/ ProcessListen(port_forward_process)
    \/ \E stop \in {"exits", "expires"}, del \in {"answered", "api_error"} :
           Exit(stop, del, "ends")
    \/ \E http_ok \in BOOLEAN :
           Request("POST", "execute", EmptyDict, PlainExchange(http_ok), NULL)

Spec == Init /\ [][Next]_vars

----------------------------------------------------------------------------
(* Acquisition alone, with the scheduling that makes it progress *)

AcquireNext ==
    \/ \E id \in ClaimIds, create_ok \in BOOLEAN : Enter(id, create_ok)
    \/ \E ev \in SandboxEvents, port \in Ports, spawn_ok \in BOOLEAN :
           SandboxEvent(ev, port, spawn_ok)
    \/ \E stop \in {"exits", "expires"}, del \in {"answered", "api_error"} :
           SandboxWatchEnd(stop, del)
    \/ SandboxWatchError
    \/ \E ev \in GatewayEvents : GatewayEvent(ev)
    \/ GatewayWatchEnd
    \/ GatewayWatchError
    \/ \E conn \in {"ok", "refused", "timeout", "oserror"},
          stop \in {"exits", "expires"}, del \in {"answered", "api_error"} :
           TunnelIterate(conn, stop, del)
    \/ \E text \in StderrTexts : ProcessExit(port_forward_process, text)
    \/ ProcessListen(port_forward_process)
    \/ ForeignListen(port_forward_process)

\* Each watch stream ends when its timeout_seconds is over, and the wait
\* loop of the tunnel goes on to its next iteration: create_connection
\* answers within its 0.1 s, by a connection, a refusal or a timeout.
AcquireFairness ==
    /\ WF_<<pc, elapsed>>(\E stop \in {"exits", "expires"},
                              del \in {"answered", "api_error"} :
                               SandboxWatchEnd(stop, del))
    /\ WF_<<pc, elapsed>>(GatewayWatchEnd)
    /\ WF_<<pc, elapsed>>(\E conn \in {"ok", "refused", "timeout"},
                              stop \in {"exits", "expires"},
                              del \in {"answered", "api_error"} :
                               TunnelIterate(conn, stop, del))

AcquireSpec == Init /\ [][AcquireNext]_vars /\ AcquireFairness

----------------------------------------------------------------------------
(* The transport in detail, on a session that is acquired at most once *)

\* the first __enter__ on the session object
FirstEnter(id, create_ok) == hist.enters = 0 /\ Enter(id, create_ok)

\* a sandbox event that ends the readiness wait
ReadyEvent ==
    [type |-> "ADDED",
     conditions |-> <<[type |-> "Scheduled", status |-> "True"],
                      [type |-> "Ready", status |-> "True"]>>,
     has_name |-> TRUE, annotations |-> EmptyDict]

\* a gateway event that carries addresses
AddressEvent == [type |-> "ADDED", addresses |-> <<"10.0.0.7", "10.0.0.8">>]

ExitTexts == {NULL, "lost connection to pod"}

\* the acquisition and release steps of such a session, with one
\* representative of each event
Lifecycle ==
    \/ \E create_ok \in BOOLEAN : FirstEnter("0b", create_ok)
    \/ \E spawn_ok \in BOOLEAN : SandboxEvent(ReadyEvent, 40001, spawn_ok)
    \/ SandboxWatchEnd("exits", "answered")
    \/ GatewayEvent(AddressEvent)
    \/ GatewayWatchEnd
    \/ \E conn \in {"ok", "refused", "oserror"} :
           TunnelIterate(conn, "exits", "answered")
    \/ ProcessExit(port_forward_process, "lost connection to pod")
    \/ ProcessListen(port_forward_process)

TransportNext ==
    \/ Lifecycle
    \/ Exit("exits", "answered", "ends")
    \/ \E answers \in Exchanges :
           Run(answers, NULL, [stdout |-> "out", exit_code |-> 1])
    \/ \E body \in Bodies : Run(PlainExchange(TRUE), NULL, body)
    \/ \E path \in Paths, answers \in FewExchanges :
           Write(path, <<104, 105>>, answers, NULL)
    \/ \E path \in Paths, answers \in Exchanges, exit_text \in ExitTexts :
           Read(path, answers, exit_text)
    \/ \E path \in Paths, answers \in FewExchanges : List(path, answers, NULL)
    \/ \E path \in Paths, answers \in FewExchanges : Exists(path, answers, NULL)
    \/ \E method \in {"GET", "POST"}, hdrs \in CallerHeaders,
          http_ok \in BOOLEAN :
           Request(method, "execute", hdrs, PlainExchange(http_ok), NULL)

TransportSpec == Init /\ [][TransportNext]_vars

\* Release in detail: the lifecycle of a session that is acquired at most
\* once, constructed with or without tracing, and released with every
\* outcome of the stop, delete and span steps.
ReleaseNext ==
    \/ Lifecycle
    \/ \E stop \in StopOutcomes, del \in DeleteAnswers, span \in SpanOutcomes :
           Exit(stop, del, span)
    \/ \E http_ok \in BOOLEAN :
           Request("GET", "execute", EmptyDict, PlainExchange(http_ok), NULL)

ReleaseSpec == InitTracing /\ [][ReleaseNext]_vars

\* File operations in detail: a session constructed with an explicit URL,
\* acquired at most once, whose requests are all let through to the runtime,
\* with every path and content and at most MaxFiles files under /app.
FilesInit == Init /\ Truthy(api_url) /\ gateway_name = NULL

FilesNext ==
    \/ \E create_ok \in BOOLEAN : FirstEnter("0b", create_ok)
    \/ \E spawn_ok \in BOOLEAN : SandboxEvent(ReadyEvent, 40001, spawn_ok)
    \/ \E path \in AllPaths, content \in Contents :
           /\ Cardinality(DOMAIN files \cup {basename(path)}) <= MaxFiles
           /\ Write(path, content, PlainExchange(TRUE), NULL)
    \/ \E path \in AllPaths : Read(path, PlainExchange(TRUE), NULL)
    \/ \E path \in AllPaths : List(path, PlainExchange(TRUE), NULL)
    \/ \E path \in AllPaths : Exists(path, PlainExchange(TRUE), NULL)

FilesSpec == FilesInit /\ [][FilesNext]_vars

----------------------------------------------------------------------------
(* The tools: integrations/sandbox_utils, over agentic_sandbox.SandboxClient *)

\* what a step of a tool's client does: "ok", or the text of the exception
\* it raises. __enter__ raises when the claim is not created or nothing gets
\* ready in time, write and run when _request does, and __exit__ when the
\* delete fails below the API: it catches client.ApiException alone.
Acquisitions ==
    {"ok", "(403) Reason: Forbidden",
     "Sandbox did not become ready within 180 seconds."}
Writes == {"ok", "Failed to communicate with the sandbox via the gateway"}
Releases == {"ok", "Max retries exceeded with url"}

\* the code and the query the tools are given
Codes == {"print(1)", "exit(1)"}
Queries == {"open the page", "close the page"}

\* what run or agent meets: the JSON body of the answer, or the exception of
\* _request
Executions ==
    {[error |-> "ok", body |-> body] : body \in Bodies}
        \cup {[error |-> "Sandbox is not ready for communication.",
                body |-> EmptyDict]}

\* ComputerUseSandbox.agent reads response_data['stdout'], ['stderr'] and
\* ['exit_code']: the first key that is absent raises KeyError, whose text is
\* the quoted key
MissingKey(body) ==
    IF "stdout" \notin DOMAIN body THEN "'stdout'"
    ELSE IF "stderr" \notin DOMAIN body THEN "'stderr'"
    ELSE IF "exit_code" \notin DOMAIN body THEN "'exit_code'"
    ELSE "ok"

\* The exception that leaves `with create_client() as sandbox: ...`, or "ok":
\* the one of __enter__, and then __exit__ is not called; else the one of
\* __exit__, which replaces that of the body; else the one of the body
LeavesWith(acquire, body, released) ==
    IF acquire # "ok" THEN acquire
    ELSE IF released # "ok" THEN released
    ELSE body

\* try: result = ... except Exception as e: return sandbox_error_to_json(e);
\* return sandbox_result_to_json(result)
HandleErrors(error, execution_result) ==
    IF error # "ok" THEN sandbox_error_to_json(error)
    ELSE sandbox_result_to_json(execution_result)

\* The record of an invocation: what each step did, "none" for a step that
\* was not reached, the body the runtime answered, the ExecutionResult made
\* of it, and the dict returned
ToolCall(tool, argument, acquire, write, answer, execute, released, execution_result) ==
    LET acquired == acquire = "ok"
        written == acquired /\ write = "ok"
        executed == written /\ execute = "ok"
        body == IF write # "ok" THEN write ELSE execute
    IN [tool |-> tool, argument |-> argument, acquire |-> acquire,
        write |-> IF acquired THEN write ELSE "none",
        answer |-> IF written THEN answer ELSE EmptyDict,
        execute |-> IF written THEN execute ELSE "none",
        release |-> IF acquired THEN released ELSE "none",
        result |-> IF executed THEN execution_result ELSE NoValue,
        returned |-> HandleErrors(LeavesWith(acquire, body, released),
                                  execution_result)]

\* python_sandbox.execute_python_tool_and_handle_errors: the code is written
\* to main.py and run in a sandbox of its own
execute_python_tool_and_handle_errors(code, acquire, write, execution, released) ==
    /\ tool_call' =
           ToolCall("python", code, acquire, write, execution.body,
                    execution.error, released,
                    ExecutionResult(execution.body))
    /\ UNCHANGED <<session_vars, router_vars>>

\* computer_use_sandbox.execute_computer_use_query_tool_and_handle_errors:
\* the query is given to the agent of a sandbox of its own
execute_computer_use_query_tool_and_handle_errors(query, acquire, execution, released) ==
    /\ tool_call' =
           ToolCall("computer_use", query, acquire, "ok", execution.body,
                    IF execution.error # "ok" THEN execution.error
                    ELSE MissingKey(execution.body),
                    released, ExecutionResult(execution.body))
    /\ UNCHANGED <<session_vars, router_vars>>

\* the tools alone
ToolInit == Init /\ api_url = NULL /\ gateway_name = NULL
ToolNext ==
    \/ \E code \in Codes, acquire \in Acquisitions, write \in Writes,
          execution \in Executions, released \in Releases :
           execute_python_tool_and_handle_errors(code, acquire, write,
                                                 execution, released)
    \/ \E query \in Queries, acquire \in Acquisitions,
          execution \in Executions, released \in Releases :
           execute_computer_use_query_tool_and_handle_errors(
               query, acquire, execution, released)
ToolSpec == ToolInit /\ [][ToolNext]_vars

----------------------------------------------------------------------------
(* The router: sandbox_router.py *)

\* the methods of the route of proxy_request
ProxyMethods == {"GET", "POST", "PUT", "DELETE", "PATCH"}

\* the path of the health check, without its leading "/"
HealthPath == <<"h", "e", "a", "l", "t", "h", "z">>

\* A health route that serves only requests without a sandbox id
IsHealthCheckUnidentified(req) ==
    /\ req.method = "GET"
    /\ req.path = HealthPath
    /\ ~HasHeader(req.headers, "x-sandbox-id")

\* the route of health_check matches: @app.get("/healthz")
IsHealthCheck(req) == req.method = "GET" /\ req.path = HealthPath

\* the bytes resp.aiter_bytes() yields: the content with the encoding that
\* the Content-Encoding header names taken off; of gzip content, the two
\* bytes 31, 139 that open the container stand for the encoding
Decoded(upstream) ==
    IF /\ "content-encoding" \in DOMAIN upstream.headers
       /\ upstream.headers["content-encoding"] = Gzip
    THEN SubSeq(upstream.content, 3, Len(upstream.content))
    ELSE upstream.content

\* the request the router has built for the target
Forward(req) ==
    LET target == ResolveTarget(req)
        parsed == ParseUrl(target)
    IN [target |-> target, contacted |-> parsed.host,
        forwarded_method |-> req.method,
        forwarded_headers |-> BuiltHeaders(req.headers, parsed),
        forwarded_body |-> req.body]

\* health_check
HealthCheck(req) ==
    /\ IsHealthCheck(req)
    /\ last_response' =
           Response("health", req, NoForward, NoUpstream, 200, <<>>, <<>>,
                    JsonBody([status |-> "ok"]))
    /\ UNCHANGED <<cookie_jar, in_flight, session_vars, tool_call>>

\* no route has the method: FastAPI answers 405
MethodNotAllowed(req) ==
    /\ ~IsHealthCheck(req)
    /\ req.method \notin ProxyMethods
    /\ last_response' =
           Response("no_route", req, NoForward, NoUpstream, 405, <<>>, <<>>,
                    JsonBody([detail |-> "Method Not Allowed"]))
    /\ UNCHANGED <<cookie_jar, in_flight, session_vars, tool_call>>

\* proxy_request up to `await client.send(req, stream=True)`: the validation
\* of the headers, the target, the request built for it
Receive(req) ==
    /\ ~IsHealthCheck(req)
    /\ req.method \in ProxyMethods
    /\ IF Rejection(req) # ""
       THEN /\ last_response' =
                   Response("proxy", req, NoForward, NoUpstream, 400, <<>>,
                            <<>>, JsonBody([detail |-> Rejection(req)]))
            /\ UNCHANGED in_flight
       ELSE IF ~ParseUrl(ResolveTarget(req)).ok
       THEN /\ last_response' =
                   Response("proxy", req,
                            [NoForward EXCEPT !.target = ResolveTarget(req)],
                            NoUpstream, 500, <<>>,
                            <<>>,
                            JsonBody([detail |-> "An internal error occurred in the proxy."]))
            /\ UNCHANGED in_flight
       ELSE /\ Cardinality(in_flight) < MaxInFlight
            /\ [request |-> req, forward |-> Forward(req)] \notin in_flight
            /\ in_flight' =
                   in_flight \cup {[request |-> req, forward |-> Forward(req)]}
            /\ UNCHANGED last_response
    /\ UNCHANGED <<cookie_jar, session_vars, tool_call>>

\* proxy_request from the outcome of client.send on: ConnectError is answered
\* 502, another exception 500, and a response is handed to StreamingResponse
\* with its status, its headers and the bytes of resp.aiter_bytes(). An
\* error of the stream strikes after the handler has returned: the status
\* and the headers are sent, and the body ends where the stream broke.
\* client.send stores the cookies of a response in the client.
Complete(entry, upstream) ==
    LET req == entry.request
        sent == entry.forward
    IN /\ entry \in in_flight
       /\ in_flight' = in_flight \ {entry}
       /\ cookie_jar' =
              IF "set-cookie" \in DOMAIN upstream.headers
              THEN cookie_jar \cup {sent.contacted} ELSE cookie_jar
       /\ last_response' =
              CASE upstream.kind = "connect_error" ->
                     Response("proxy", req, sent, upstream, 502,
                              SandboxId(req), <<>>,
                              JsonBody([detail |-> "Could not connect to the backend sandbox"]))
                [] upstream.kind = "connect_timeout" ->
                     Response("proxy", req, sent, upstream, 500, <<>>, <<>>,
                              JsonBody([detail |-> "An internal error occurred in the proxy."]))
                [] upstream.kind = "response" ->
                     Response("proxy", req, sent, upstream, upstream.status,
                              <<>>, upstream.headers,
                              BytesBody(Decoded(upstream)))
                [] upstream.kind = "stream_error" ->
                     Response("proxy", req, sent, upstream, upstream.status,
                              <<>>, upstream.headers,
                              BytesBody(SubSeq(Decoded(upstream), 1,
                                               upstream.received)))
       /\ UNCHANGED <<session_vars, tool_call>>

\* the X-Sandbox-ID, X-Sandbox-Namespace and X-Sandbox-Port headers the
\* requests bring: each of the three absent and at several values beside
\* plain values of the others
IdentityHeaders ==
    LET id == Header("x-sandbox-id", <<"s", "b">>)
    IN {<<>>, <<id>>,
        <<Header("x-sandbox-id", <<>>)>>,
        <<Header("x-sandbox-id", <<"e", ".", "c", "#">>)>>,
        <<id, Header("x-sandbox-namespace", <<"n", "-", "1">>)>>,
        <<id, Header("x-sandbox-namespace", <<"a", ".", "b">>)>>,
        <<id, Header("x-sandbox-namespace", <<"-">>)>>,
        <<id, Header("x-sandbox-port", <<"8", "0">>)>>,
        <<id, Header("x-sandbox-port", <<"x">>)>>,
        <<id, Header("x-sandbox-port", <<"-", "1">>)>>}

\* the path of the runtime's execute route
ExecutePath == <<"e", "x", "e", "c", "u", "t", "e">>

\* an inbound request
Inbound(method, path, headers, body) ==
    [method |-> method, path |-> path,
     headers |-> <<Header("host", <<"r">>)>> \o headers, body |-> body]

\* the requests that reach the router
Requests ==
    {Inbound("POST", ExecutePath, identity, <<123, 125>>) :
         identity \in IdentityHeaders}
    \cup {Inbound(method, HealthPath, <<>>, <<>>) :
              method \in {"GET", "POST", "HEAD"}}
    \cup {Inbound("GET", HealthPath,
                  <<Header("x-sandbox-id", <<"s", "b">>)>>, <<>>),
          Inbound("GET", ExecutePath,
                  <<Header("x-sandbox-id", <<"s", "b">>),
                    Header("accept", <<"a">>), Header("accept", <<"b">>),
                    Header("cookie", <<"c">>)>>, <<>>)}

\* the outcomes of client.send and of the stream of the response that the
\* host gives; the runtime of one sandbox sets a cookie
Upstreams(host) ==
    LET Outcome(kind, status, headers, content, received) ==
            [kind |-> kind, status |-> status, headers |-> headers,
             content |-> content, received |-> received]
    IN (IF host = TargetHost(<<"s", "b">>, DEFAULT_NAMESPACE)
        THEN {Outcome("response", 404,
                      ("content-length" :> <<"0">>) @@ ("set-cookie" :> <<"j">>),
                      <<>>, 0)}
        ELSE {})
       \cup
       {Outcome("connect_error", 0, <<>>, <<>>, 0),
        Outcome("connect_timeout", 0, <<>>, <<>>, 0),
        Outcome("response", 200, ("content-length" :> <<"2">>), <<104, 105>>, 2),
        Outcome("response", 200,
                ("content-length" :> <<"4">>) @@ ("content-encoding" :> Gzip),
                <<31, 139, 104, 105>>, 4),
        Outcome("stream_error", 200, ("content-length" :> <<"2">>),
                <<104, 105>>, 1)}

\* the router alone: the session is not used
RouterInit == Init /\ api_url = NULL /\ gateway_name = NULL
RouterNext ==
    \/ \E req \in Requests : HealthCheck(req)
    \/ \E req \in Requests : MethodNotAllowed(req)
    \/ \E req \in Requests : Receive(req)
    \/ \E entry \in in_flight :
           \E upstream \in Upstreams(entry.forward.contacted) :
               Complete(entry, upstream)
RouterSpec == RouterInit /\ [][RouterNext]_vars

----------------------------------------------------------------------------
(* The global tracer provider: initialize_tracer of trace_manager.py *)

\* A second check that the lock makes needless
SecondCheckPasses(provider) == TRUE

\* `if _TRACER_PROVIDER is None:` under the lock
SecondCheck(provider) == provider = NULL

\* initialize_tracer(service_name) is called on thread t; without the
\* OpenTelemetry packages it logs an error and returns.
initialize_tracer(t, service_name) ==
    /\ initializing[t].pc = "returned"
    /\ initializing' =
           [initializing EXCEPT
               ![t] = [pc |-> IF tracer_provider.available
                              THEN "first_check" ELSE "returned",
                       service_name |-> service_name]]
    /\ UNCHANGED <<tracer_provider, tool_call, router_vars, api_url,
                   gateway_name, base_url, claim_name, sandbox_name, pod_name,
                   annotations, port_forward_process, procs, claims, pc,
                   result, error_stderr, elapsed, acq, hist, last_request,
                   tracing_manager, release, files, file_op>>

\* The first check, without the lock: a provider that exists is kept, with
\* a warning when its service name is another one.
FirstCheck(t) ==
    /\ initializing[t].pc = "first_check"
    /\ initializing' =
           [initializing EXCEPT
               ![t].pc = IF tracer_provider.provider # NULL
                         THEN "returned" ELSE "lock"]
    /\ UNCHANGED <<tracer_provider, tool_call, router_vars, api_url,
                   gateway_name, base_url, claim_name, sandbox_name, pod_name,
                   annotations, port_forward_process, procs, claims, pc,
                   result, error_stderr, elapsed, acq, hist, last_request,
                   tracing_manager, release, files, file_op>>

\* `with _TRACER_PROVIDER_LOCK:` is entered when no thread holds the lock
AcquireLock(t) ==
    /\ initializing[t].pc = "lock"
    /\ tracer_provider.lock = 0
    /\ tracer_provider' = [tracer_provider EXCEPT !.lock = t]
    /\ initializing' = [initializing EXCEPT ![t].pc = "second_check"]
    /\ UNCHANGED <<tool_call, router_vars, api_url,
                   gateway_name, base_url, claim_name, sandbox_name, pod_name,
                   annotations, port_forward_process, procs, claims, pc,
                   result, error_stderr, elapsed, acq, hist, last_request,
                   tracing_manager, release, files, file_op>>

\* The second check and the construction of the provider, which is
\* assigned to _TRACER_PROVIDER before it has a span processor
Construct(t) ==
    /\ initializing[t].pc = "second_check"
    /\ IF SecondCheck(tracer_provider.provider)
       THEN /\ tracer_provider' =
                   [tracer_provider EXCEPT
                       !.provider = initializing[t].service_name,
                       !.constructed = @ + 1]
            /\ initializing' = [initializing EXCEPT ![t].pc = "add_span_processor"]
       ELSE /\ tracer_provider' = [tracer_provider EXCEPT !.lock = 0]
            /\ initializing' = [initializing EXCEPT ![t].pc = "returned"]
    /\ UNCHANGED <<tool_call, router_vars, api_url,
                   gateway_name, base_url, claim_name, sandbox_name, pod_name,
                   annotations, port_forward_process, procs, claims, pc,
                   result, error_stderr, elapsed, acq, hist, last_request,
                   tracing_manager, release, files, file_op>>

\* add_span_processor(BatchSpanProcessor(OTLPSpanExporter())): an exporter
\* that cannot be built raises, and the with statement gives the lock back
AddSpanProcessor(t, built) ==
    /\ initializing[t].pc = "add_span_processor"
    /\ IF built
       THEN /\ initializing' = [initializing EXCEPT ![t].pc = "install"]
            /\ UNCHANGED tracer_provider
       ELSE /\ tracer_provider' = [tracer_provider EXCEPT !.lock = 0]
            /\ initializing' = [initializing EXCEPT ![t].pc = "returned"]
    /\ UNCHANGED <<tool_call, router_vars, api_url,
                   gateway_name, base_url, claim_name, sandbox_name, pod_name,
                   annotations, port_forward_process, procs, claims, pc,
                   result, error_stderr, elapsed, acq, hist, last_request,
                   tracing_manager, release, files, file_op>>

\* trace.set_tracer_provider, atexit.register of its shutdown, and the end
\* of the with statement
Install(t) ==
    /\ initializing[t].pc = "install"
    /\ tracer_provider' = [tracer_provider EXCEPT !.installed = @ + 1,
                                                  !.registered = @ + 1,
                                                  !.lock = 0]
    /\ initializing' = [initializing EXCEPT ![t].pc = "returned"]
    /\ UNCHANGED <<tool_call, router_vars, api_url,
                   gateway_name, base_url, claim_name, sandbox_name, pod_name,
                   annotations, port_forward_process, procs, claims, pc,
                   result, error_stderr, elapsed, acq, hist, last_request,
                   tracing_manager, release, files, file_op>>

TracerInit ==
    /\ Constructed(FALSE) /\ api_url = NULL /\ gateway_name = NULL
    /\ \E available \in BOOLEAN : Imported(available)
TracerNext ==
    \E t \in Threads :
        \/ \E service_name \in ServiceNames : initialize_tracer(t, service_name)
        \/ FirstCheck(t)
        \/ AcquireLock(t)
        \/ Construct(t)
        \/ \E built \in BOOLEAN : AddSpanProcessor(t, built)
        \/ Install(t)
TracerSpec == TracerInit /\ [][TracerNext]_vars

----------------------------------------------------------------------------
(* Properties *)

\* the ways __enter__ raises after the claim was created
FailuresAfterCreate ==
    {"ready_timeout", "no_name", "watch_error", "gateway_timeout",
     "spawn_error", "tunnel_crashed", "tunnel_timeout", "connect_error"}

\* the latest __enter__ has returned or raised
Ended == pc = "idle" /\ result # "none"

\* C1: whenever acquisition fails after the claim was created, a delete call
\* for the session's claim was issued before the error reached the caller.
C1_DeleteBeforeError ==
    (Ended /\ acq.created /\ result \in FailuresAfterCreate)
        => (acq.deletes >= 1 /\ claim_name \in hist.deleted)

\* C2: whenever tunnel-mode acquisition fails after the subprocess was
\* spawned, the subprocess is no longer running when the error reaches the
\* caller.
C2_NoRunningTunnelAfterFailure ==
    (Ended /\ result \in FailuresAfterCreate /\ acq.spawns >= 1)
        => procs[port_forward_process].status # "running"

\* C3: when the readiness watch ends and no event carried Ready=True, the
\* acquisition raises the readiness timeout, has issued exactly one delete
\* call, for its own claim, and has started neither a gateway watch nor a
\* tunnel subprocess.
C3_ReadinessTimeoutCleansUpOnce ==
    (Ended /\ acq.created /\ ~acq.ready_carried /\ result # "watch_error")
        => /\ result = "ready_timeout"
           /\ acq.deletes = 1
           /\ claim_name \in hist.deleted
           /\ acq.gw_watches = 0
           /\ acq.spawns = 0
           /\ acq.strategy = {}

C3_Witness ==
    /\ Ended
    /\ result = "ready_timeout"
    /\ ~acq.ready_carried
    /\ acq.deletes = 1
    /\ gateway_name # NULL

\* C4: in gateway mode, when the gateway watch ends without an address, the
\* claim delete was issued before the timeout error is raised, and base_url
\* is still null.
C4_GatewayTimeoutCleansUp ==
    (Ended /\ result = "gateway_timeout")
        => (acq.deletes >= 1 /\ base_url = NULL)

\* C5: an acquisition executes at most one strategy, exactly one when it
\* succeeds, and the one executed is the configured priority choice:
\* explicit URL if a URL was supplied, else gateway, else tunnel.
C5_OneStrategyByPriority ==
    /\ Cardinality(acq.strategy) <= 1
    /\ (Ended /\ result = "ok") => Cardinality(acq.strategy) = 1
    /\ \A st \in acq.strategy : st = SelectStrategy(api_url, gateway_name)

\* C6: a session constructed with an explicit URL issues no gateway watch and
\* spawns no subprocess, with or without a gateway name, and its base_url is
\* the supplied URL.
C6_ExplicitUrlNoDiscovery ==
    Truthy(api_url)
        => /\ acq.gw_watches = 0
           /\ acq.spawns = 0
           /\ procs = <<>>
           /\ acq.strategy \subseteq {"explicit"}
           /\ base_url = api_url

C6_Witness ==
    /\ Truthy(api_url)
    /\ gateway_name # NULL
    /\ Ended
    /\ result = "ok"
    /\ acq.strategy = {"explicit"}

\* C7: a session with neither gateway nor URL whose acquisition succeeded
\* has spawned exactly one tunnel subprocess in that acquisition, and its
\* base_url is http://127.0.0.1:<p>, p the port given to that subprocess.
C7_TunnelSessionOwnsOneSubprocess ==
    (Ended /\ result = "ok" /\ ~Truthy(api_url) /\ ~Truthy(gateway_name))
        => /\ acq.spawns = 1
           /\ port_forward_process # 0
           /\ base_url = TunnelUrl(procs[port_forward_process].port)

C9_ReadyIffAcquired ==
    /\ ~hist.ever_ok => ~is_ready
    /\ (Ended /\ result = "ok") => is_ready

\* C10, as stated: base_url changes at most once, and then from null.
C10_SetOnceFromNull ==
    [][ base_url' # base_url
          => (base_url = NULL /\ hist.url_changes = 0) ]_vars

\* C10, amended: base_url changes at most once, from an unset value (null or
\* the empty string) to a non-empty URL, and a non-empty base_url is never
\* reassigned by acquire, transport or release.
C10_SetAtMostOnce ==
    [][ base_url' # base_url
          => /\ ~Truthy(base_url)
             /\ Truthy(base_url')
             /\ hist.url_changes = 0
             /\ hist'.url_changes = 1 ]_vars

C10_Witness ==
    /\ hist.url_changes = 1
    /\ hist.enters = 2
    /\ Ended
    /\ result = "ok"
    /\ acq.released
    /\ last_request.outcome # "none"

\* C11: a transport operation attempted while no acquisition has succeeded
\* fails with the not-ready error and sends no HTTP request.
C11_NotReadyBeforeAcquisition ==
    (~hist.ever_ok /\ last_request.outcome # "none")
        => (last_request.outcome = "not_ready" /\ last_request.sent = 0)

\* a step that is a call of _request
RequestStep == pc = "idle" /\ hist' = hist /\ last_request' # last_request

\* C12, as stated: a transport request of a session that owns an exited
\* tunnel subprocess fails with the tunnel-crashed error carrying the
\* captured stderr, and sends no HTTP request.
C12_ExitedTunnelAlwaysCrashError ==
    [][ (RequestStep /\ port_forward_process # 0
           /\ Exited(port_forward_process))
          => /\ last_request'.outcome = "tunnel_crashed"
             /\ error_stderr' = procs[port_forward_process].stderr
             /\ last_request'.sent = 0 ]_vars

\* C12, amended: a transport request of a session that owns an exited tunnel
\* subprocess sends no HTTP request; when the session is ready it fails with
\* the tunnel-crashed error carrying the captured stderr, and when base_url
\* is unset it fails with the not-ready error.
C12_ReadySessionExitedTunnel ==
    [][ (RequestStep /\ port_forward_process # 0
           /\ Exited(port_forward_process))
          => /\ last_request'.sent = 0
             /\ is_ready
                  => /\ last_request'.outcome = "tunnel_crashed"
                     /\ error_stderr' = procs[port_forward_process].stderr
             /\ ~is_ready => last_request'.outcome = "not_ready" ]_vars

C12_Witness ==
    /\ Ended
    /\ result = "ok"
    /\ ~acq.released
    /\ port_forward_process # 0
    /\ procs[port_forward_process].status = "exited"
    /\ last_request.outcome = "tunnel_crashed"
    /\ last_request.method = "GET"
    /\ error_stderr = "lost connection to pod"

\* C13: every HTTP request the transport sends carries the three routing
\* headers with the session's values: the claim id, the namespace, the port.
C13_RoutingHeadersOnEveryRequest ==
    last_request.sent >= 1
        => /\ {"X-Sandbox-ID", "X-Sandbox-Namespace", "X-Sandbox-Port"}
                 \subseteq DOMAIN last_request.headers
           /\ last_request.headers["X-Sandbox-ID"] = claim_name
           /\ last_request.headers["X-Sandbox-Namespace"] = namespace
           /\ last_request.headers["X-Sandbox-Port"] = ToString(server_port)

\* C14: a POST (run, write) is never re-sent after a response: of one call
\* at most one HTTP request reaches the remote side.
C14_PostNeverResent ==
    last_request.method = "POST" => last_request.delivered <= 1

Called(name) == \E i \in DOMAIN release.calls : release.calls[i] = name

\* C16: __exit__ never raises and attempts each of its steps: a 404 on the
\* claim delete is not logged, every other failure of the stop, the delete or
\* the span end is logged and swallowed, and a failing step does not keep
\* the later steps from running.
C16_ReleaseNeverRaises ==
    release.ran =>
        /\ ~release.raised
        /\ port_forward_process # 0 => Called("terminate")
        /\ Truthy(claim_name) => Called("delete")
        /\ tracing_manager => Called("end_lifecycle_span")
        /\ release.errors.delete = "ApiException404"
               => "delete" \notin release.logged
        /\ \A st \in {"stop", "delete", "span"} :
               release.errors[st] \notin {"none", "ApiException404"}
                   => st \in release.logged

C16_Witness ==
    /\ release.ran
    /\ acq.released
    /\ release.errors.stop = "OSError"
    /\ release.errors.delete = "MaxRetryError"
    /\ release.errors.span = "RuntimeError"
    /\ release.logged = {"stop", "delete", "span"}
    /\ release.calls = <<"terminate", "delete", "end_lifecycle_span">>

\* a step that is __exit__ on a session the caller has released before
RepeatedExit ==
    /\ acq.released
    /\ \E stop \in StopOutcomes, del \in DeleteAnswers, span \in SpanOutcomes :
           Exit(stop, del, span)

\* the last __exit__ stopped the subprocess and had its delete call answered
CleanRelease == release.ran /\ release.logged \cap {"stop", "delete"} = {}

\* what __exit__ leaves of the session, its subprocess and its claim
ReleasedState ==
    <<api_url, gateway_name, base_url, claim_name, sandbox_name, pod_name,
      annotations, port_forward_process, tracing_manager, procs, claims>>

\* C17, as stated: the second release of a session raises nothing and leaves
\* the session, the subprocess and the claim as the first release left them.
C17_SecondReleaseIsNoOp ==
    [][RepeatedExit =>
          /\ ~release'.raised
          /\ ReleasedState' = ReleasedState]_vars

\* C17, amended: a repeated release raises nothing; after a release that
\* stopped the subprocess and had its delete call answered, the repeated
\* stop step raises nothing, the repeated delete deletes no claim (a
\* not-found answer is not logged), and the session, the subprocess and
\* the claim stay as the earlier release left them.
C17_ReleaseAfterCleanReleaseIsNoOp ==
    [][RepeatedExit =>
          /\ ~release'.raised
          /\ CleanRelease =>
                 /\ release'.errors.stop = "none"
                 /\ Truthy(claim_name) => release'.errors.delete # "none"
                 /\ release'.errors.delete = "ApiException404"
                        => "delete" \notin release'.logged
                 /\ ReleasedState' = ReleasedState]_vars

C17_Witness ==
    /\ acq.released
    /\ result = "ok"
    /\ port_forward_process # 0
    /\ procs[port_forward_process].status = "terminated"
    /\ claim_name \notin claims
    /\ release.errors.delete = "ApiException404"
    /\ release.logged = {}
    /\ release.calls = <<"terminate", "wait", "delete">>

\* C18: in __exit__ every call that stops the subprocess precedes the delete
\* call; terminate() comes first, then wait(), and kill() follows only a
\* wait() that expired with the subprocess alive, so a subprocess that
\* exited within the grace period is never killed.
C18_StopBeforeDelete ==
    release.ran =>
        /\ \A i, j \in DOMAIN release.calls :
               (/\ release.calls[i] \in {"terminate", "wait", "kill"}
                /\ release.calls[j] = "delete") => i < j
        /\ Called("wait") => release.calls[1] = "terminate"
        /\ Called("kill") =>
               /\ SubSeq(release.calls, 1, 3) = <<"terminate", "wait", "kill">>
               /\ \/ procs[port_forward_process].status = "killed"
                  \/ release.errors.stop = "OSError"
        /\ (/\ port_forward_process # 0
            /\ procs[port_forward_process].status = "terminated")
               => ~Called("kill")

C18_Witness ==
    /\ release.ran
    /\ release.calls = <<"terminate", "wait", "kill", "delete">>
    /\ procs[port_forward_process].status = "killed"
    /\ claim_name \notin claims

\* the response body reports a nonzero exit code or output on stderr
ReportsFailure(body) ==
    \/ "exit_code" \in DOMAIN body /\ body["exit_code"] # 0
    \/ "stderr" \in DOMAIN body /\ body["stderr"] # ""

\* run() has returned a result that holds each value of the response body
ReturnedAsReported ==
    /\ last_request.outcome = "ok"
    /\ last_request.value.kind = "ExecutionResult"
    /\ \A k \in DOMAIN last_request.body :
           last_request.value[k] = last_request.body[k]

\* the latest call is a POST /execute that was answered with status 200
ExecuteAnswered ==
    /\ last_request.method = "POST"
    /\ last_request.endpoint = Endpoint("execute", <<>>)
    /\ last_request.status = 200

\* C19, as stated: a command that was transported and reports a nonzero
\* exit code or output on stderr is returned by run() with these values,
\* without an error, and the tool layer reports status "failure".
C19_ReportedFailureIsFailure ==
    /\ ExecuteAnswered => last_request.outcome = "ok"
    /\ (/\ last_request.value.kind = "ExecutionResult"
        /\ ReportsFailure(last_request.body))
           => /\ ReturnedAsReported
              /\ ToolReport.status = "failure"

\* C19, amended: such a command is returned by run() with these values,
\* without an error; the tool layer reports status "failure" when the exit
\* code is not 0 and "success" when it is 0, whatever stderr holds, never
\* "error", and its report carries the three values.
C19_ReportedFailureIsNoError ==
    /\ ExecuteAnswered => last_request.outcome = "ok"
    /\ (/\ last_request.value.kind = "ExecutionResult"
        /\ ReportsFailure(last_request.body))
           => /\ ReturnedAsReported
              /\ ToolReport.status # "error"
              /\ ToolReport.status = "failure" <=> last_request.value.exit_code # 0
              /\ ToolReport.status = "success" <=> last_request.value.exit_code = 0
              /\ ToolReport.exit_code = last_request.value.exit_code
              /\ ToolReport.stdout = last_request.value.stdout
              /\ ToolReport.stderr = last_request.value.stderr

C19_Witness ==
    /\ result = "ok"
    /\ ExecuteAnswered
    /\ last_request.body = [stdout |-> "out", stderr |-> "err", exit_code |-> 0]
    /\ last_request.value.stderr = "err"
    /\ ToolReport.status = "success"

\* C20: run() on a successful response returns exit_code -1 when the body
\* omits exit_code, "" for an omitted stdout or stderr, and each field the
\* body holds unchanged.
C20_OmittedFieldsDefault ==
    last_request.value.kind = "ExecutionResult" =>
        /\ "exit_code" \notin DOMAIN last_request.body
               => last_request.value.exit_code = -1
        /\ "stdout" \notin DOMAIN last_request.body
               => last_request.value.stdout = ""
        /\ "stderr" \notin DOMAIN last_request.body
               => last_request.value.stderr = ""
        /\ \A k \in DOMAIN last_request.body :
               last_request.value[k] = last_request.body[k]

C20_Witness ==
    /\ ExecuteAnswered
    /\ last_request.outcome = "ok"
    /\ DOMAIN last_request.body = {"stdout"}
    /\ last_request.value =
           [kind |-> "ExecutionResult", stdout |-> "out", stderr |-> "",
            exit_code |-> -1]

\* C21: a read(P) that follows a successful write(P, C) on the session
\* returns exactly C.
C21_ReadReturnsWritten ==
    (/\ file_op.op = "read"
     /\ file_op.written.ok
     /\ file_op.path = file_op.written.path)
        => file_op.returned =
               [kind |-> "bytes", data |-> file_op.written.content]

\* C22: the path of a read, list or exists call is percent-encoded once into
\* the URL (decoding it once gives the path back), and the path the runtime
\* obtains after its decoding is the path that was passed.
C22_PathRoundTrips ==
    (file_op.op \in {"read", "list", "exists"} /\ file_op.reached)
        => /\ unquote(file_op.sent_path) = file_op.path
           /\ file_op.obtained = file_op.path


\* the request was answered by proxy_request
Proxied == last_response.kind = "proxy"

\* the namespace of the request has a character that is neither
\* alphanumeric nor a hyphen
NamespaceHasOtherCharacter(req) ==
    \E i \in DOMAIN Namespace(req) :
        Namespace(req)[i] \notin Letters \cup DOMAIN Digits \cup {"-"}

\* the forwarding of the request failed otherwise than by a refused
\* connection: the URL could not be built, the connection timed out, or the
\* stream of the response broke
OtherForwardingError ==
    \/ last_response.forward.target # <<>>
           /\ last_response.forward.contacted = <<>>
    \/ last_response.upstream.kind \in {"connect_timeout", "stream_error"}

\* C23: a proxied request without X-Sandbox-ID, with a namespace that holds a
\* character other than alphanumerics and hyphen, or with a port that is no
\* integer is answered 400; a failed upstream connection is answered 502
\* naming the sandbox id; any other error while forwarding is answered 500;
\* and a request answered 400 was never sent upstream.
C23_FailureMapping ==
    /\ Proxied =>
          LET req == last_response.request
          IN /\ SandboxId(req) = <<>> => last_response.status = 400
             /\ NamespaceHasOtherCharacter(req) => last_response.status = 400
             /\ ~Port(req).ok => last_response.status = 400
             /\ last_response.upstream.kind = "connect_error" =>
                   /\ last_response.status = 502
                   /\ last_response.named = SandboxId(req)
             /\ OtherForwardingError => last_response.status = 500
             /\ last_response.status = 400 =>
                   /\ last_response.forward = NoForward
                   /\ last_response.upstream = NoUpstream
    /\ \A entry \in in_flight : Rejection(entry.request) = ""

\* the requests whose target was resolved, each with its target
Resolved ==
    {[request |-> entry.request, target |-> entry.forward.target] :
         entry \in in_flight}
        \cup (IF last_response.forward.target # <<>>
              THEN {[request |-> last_response.request,
                     target |-> last_response.forward.target]}
              ELSE {})

\* the two requests have the same identity headers and the same path
SameIdentity(a, b) ==
    /\ HasHeader(a.headers, "x-sandbox-id") = HasHeader(b.headers, "x-sandbox-id")
    /\ SandboxId(a) = SandboxId(b)
    /\ HasHeader(a.headers, "x-sandbox-namespace")
           = HasHeader(b.headers, "x-sandbox-namespace")
    /\ Namespace(a) = Namespace(b)
    /\ HasHeader(a.headers, "x-sandbox-port")
           = HasHeader(b.headers, "x-sandbox-port")
    /\ HeaderGet(a.headers, "x-sandbox-port", <<>>)
           = HeaderGet(b.headers, "x-sandbox-port", <<>>)
    /\ a.path = b.path

\* every resolved target is http://<id>.<namespace>.svc.cluster.local:<port>/<path>
\* of its own request, and requests of one identity have one target
TargetsFollowRequests ==
    /\ \A a \in Resolved :
           a.target = HttpScheme \o SandboxId(a.request) \o <<".">>
                          \o Namespace(a.request) \o ServiceSuffix \o <<":">>
                          \o str(Port(a.request).value) \o <<"/">>
                          \o a.request.path
    /\ \A a, b \in Resolved :
           SameIdentity(a.request, b.request) => a.target = b.target

\* C24: requests with the same X-Sandbox-ID, X-Sandbox-Namespace,
\* X-Sandbox-Port and path resolve to the same target
\* http://<id>.<namespace>.svc.cluster.local:<port>/<path>, whatever was
\* handled before or is in flight, and no step of the router changes the
\* target any request resolves to.
C24_ResolutionIsStateless ==
    [][/\ \A req \in Requests : ResolveTarget(req)' = ResolveTarget(req)
       /\ TargetsFollowRequests']_vars

\* C24 witness: two different requests of one identity are in flight at
\* once, resolved before and after the client stored a cookie.
C24_Witness ==
    /\ cookie_jar # {}
    /\ \E a, b \in in_flight :
           /\ a # b
           /\ a.request.method # b.request.method
           /\ SameIdentity(a.request, b.request)
           /\ "cookie" \in DOMAIN a.forward.forwarded_headers
           /\ a.forward.target = b.forward.target

\* the text ends with the suffix
EndsWith(text, suffix) ==
    /\ Len(text) >= Len(suffix)
    /\ SubSeq(text, Len(text) - Len(suffix) + 1, Len(text)) = suffix

\* C25: every request the router sends upstream goes to the host
\* <id>.<namespace>.svc.cluster.local of the headers it carries, whatever
\* their values.
C25_UpstreamInsideCluster ==
    \A entry \in in_flight :
        /\ EndsWith(entry.forward.contacted, ServiceSuffix)
        /\ entry.forward.contacted =
               SandboxId(entry.request) \o <<".">> \o Namespace(entry.request)
                   \o ServiceSuffix

\* the request is GET /healthz
GetHealthz(req) == req.method = "GET" /\ req.path = HealthPath

\* C26: GET /healthz is answered 200 with {status: ok} by the router itself,
\* with or without identity headers, and is never forwarded, whatever is in
\* flight and whatever the client has stored.
C26_HealthAlwaysOk ==
    /\ \A entry \in in_flight : ~GetHealthz(entry.request)
    /\ last_response.kind # "none" /\ GetHealthz(last_response.request) =>
          /\ last_response.kind = "health"
          /\ last_response.status = 200
          /\ last_response.body = JsonBody([status |-> "ok"])
          /\ last_response.forward = NoForward
          /\ last_response.upstream = NoUpstream

\* C26 witness: a health check without identity headers was answered while
\* two proxied requests were in flight and a cookie was stored.
C26_Witness ==
    /\ last_response.kind = "health"
    /\ ~HasHeader(last_response.request.headers, "x-sandbox-id")
    /\ Cardinality(in_flight) = MaxInFlight
    /\ cookie_jar # {}

\* C27: the router forwards the inbound method, the body and every inbound
\* header except Host unchanged, and returns the upstream status, headers
\* and body unmodified.
C27_ForwardedVerbatim ==
    /\ \A entry \in in_flight :
           /\ entry.forward.forwarded_method = entry.request.method
           /\ entry.forward.forwarded_body = entry.request.body
           /\ \A i \in DOMAIN entry.request.headers :
                  LET header == entry.request.headers[i]
                  IN header.name # "host" =>
                        /\ header.name \in DOMAIN entry.forward.forwarded_headers
                        /\ entry.forward.forwarded_headers[header.name]
                               = header.value
    /\ Proxied /\ last_response.upstream.kind = "response" =>
          /\ last_response.status = last_response.upstream.status
          /\ last_response.headers = last_response.upstream.headers
          /\ last_response.body = BytesBody(last_response.upstream.content)


\* a step of run, write, read, list or exists
TransportStep ==
    \/ \E answers \in Exchanges, body \in Bodies : Run(answers, NULL, body)
    \/ \E path \in Paths, answers \in Exchanges, exit_text \in ExitTexts :
           \/ Write(path, <<104, 105>>, answers, exit_text)
           \/ Read(path, answers, exit_text)
           \/ List(path, answers, exit_text)
           \/ Exists(path, answers, exit_text)

C29_PodNameFromAnnotationOrName ==
    result = "ok" =>
        /\ annotations \in AnnotationDicts
        /\ IF /\ POD_NAME_ANNOTATION \in DOMAIN annotations
              /\ annotations[POD_NAME_ANNOTATION] # ""
           THEN pod_name = annotations[POD_NAME_ANNOTATION]
           ELSE pod_name = sandbox_name

\* C29 witness: a session acquired from a Ready event whose pod-name
\* annotation is present and empty has the sandbox name as pod_name.
C29_Witness ==
    /\ result = "ok"
    /\ POD_NAME_ANNOTATION \in DOMAIN annotations
    /\ annotations[POD_NAME_ANNOTATION] = ""
    /\ pod_name = sandbox_name
    /\ pod_name # NULL


\* the acquisition or the execution of the latest invocation raised
AcquisitionOrExecutionRaised ==
    \/ tool_call.acquire \notin {"ok", "none"}
    \/ tool_call.write \notin {"ok", "none"}
    \/ tool_call.execute \notin {"ok", "none"}

\* C30: an invocation of a tool returns a dict: with status error and the
\* text of the error when acquisition or execution raised, and otherwise
\* with status success exactly when exit_code is 0, failure when it is not,
\* and exit_code, stdout and stderr of the ExecutionResult.
C30_ToolReportsResultOrError ==
    tool_call.tool # "none" =>
        IF AcquisitionOrExecutionRaised
        THEN /\ tool_call.returned.status = "error"
             /\ tool_call.returned.stderr
                    \in {tool_call.acquire, tool_call.write,
                         tool_call.execute, tool_call.release} \ {"ok", "none"}
        ELSE /\ tool_call.returned.status
                    = IF tool_call.result.exit_code = 0
                      THEN "success" ELSE "failure"
             /\ tool_call.returned.exit_code = tool_call.result.exit_code
             /\ tool_call.returned.stdout = tool_call.result.stdout
             /\ tool_call.returned.stderr = tool_call.result.stderr


\* the event is ADDED or MODIFIED and its conditions hold {Ready, True}
Satisfying(ev) ==
    /\ ev.type \in {"ADDED", "MODIFIED"}
    /\ [type |-> "Ready", status |-> "True"]
           \in {ev.conditions[i] : i \in DOMAIN ev.conditions}

\* the three fields of the session that the Ready event gives
ReadyFields == <<sandbox_name, pod_name, ToString(annotations)>>

HasAddresses(ev) ==
    /\ ev.type \in {"ADDED", "MODIFIED"}
    /\ Len(ev.addresses) > 0

\* C32 as stated: gateway discovery completes at the first ADDED or MODIFIED
\* gateway event whose status.addresses list is not empty, and base_url is
\* http:// followed by the value of the first address of that event.
C32_CompletesOnAnyAddress ==
    [][pc = "wait_gateway" =>
           \A ev \in GatewayEvents :
               GatewayEvent(ev) /\ HasAddresses(ev) =>
                   /\ pc' = "idle"
                   /\ result' = "ok"
                   /\ base_url' = "http://" \o ev.addresses[1]]_vars

\* C32: gateway discovery completes at the first ADDED or MODIFIED gateway
\* event whose status.addresses list is not empty and whose first address
\* has a non-empty value, and sets base_url to http:// followed by that
\* value; every other gateway event, one whose first address has no value
\* included, leaves the discovery waiting and base_url as it was.
C32_CompletesOnFirstAddressValue ==
    [][pc = "wait_gateway" =>
           \A ev \in GatewayEvents :
               GatewayEvent(ev) =>
                   IF HasAddresses(ev) /\ ev.addresses[1] \notin {NULL, ""}
                   THEN /\ pc' = "idle"
                        /\ result' = "ok"
                        /\ base_url' = "http://" \o ev.addresses[1]
                   ELSE /\ pc' = "wait_gateway"
                        /\ base_url' = base_url
                        /\ result' = result]_vars

\* C32 witness: a gateway session acquired with the first of two addresses
C32_Witness ==
    /\ result = "ok"
    /\ "gateway" \in acq.strategy
    /\ acq.gw_watches > 0
    /\ base_url = "http://10.0.0.7"

\* the step begins connectivity work: a gateway watch, or the free port and
\* the subprocess of the tunnel
ConnectivityBegins ==
    \/ acq'.gw_watches > acq.gw_watches
    \/ acq'.spawns > acq.spawns
    \/ Len(procs') > Len(procs)
    \/ pc' \in {"wait_gateway", "tunnel_loop"} /\ pc' # pc

\* the step is an __enter__ whose create call failed
CreateFailed ==
    /\ pc = "idle"
    /\ hist'.enters > hist.enters
    /\ claim_name' \notin (claims' \ claims)

\* C33: the acquisition steps are strictly ordered. The create call is
\* issued once, by __enter__, before the readiness watch starts; connectivity
\* work (gateway watch, local port, subprocess) begins only in the step that
\* handles a Ready event of the readiness watch; a failed create call is not
\* retried and is followed by no watch and no subprocess.
C33_AcquisitionStepsOrdered ==
    [][/\ claims' \ claims # {} =>
              /\ pc = "idle" /\ hist'.enters = hist.enters + 1
              /\ claims' = claims \cup {claim_name'}
              /\ pc' = "wait_ready"
       /\ (pc' = "wait_ready" /\ pc # "wait_ready") =>
              /\ claim_name' \in (claims' \ claims)
              /\ acq' = [NewAcq EXCEPT !.created = TRUE]
       /\ ConnectivityBegins =>
              /\ pc = "wait_ready"
              /\ acq.created
              /\ acq.gw_watches = 0 /\ acq.spawns = 0
              /\ \E ev \in SandboxEvents :
                     /\ Satisfying(ev)
                     /\ \E port \in Ports, spawn_ok \in BOOLEAN :
                            SandboxEvent(ev, port, spawn_ok)
       /\ CreateFailed =>
              /\ pc' = "idle"
              /\ result' \in {"create_error", "create_conflict"}
              /\ claims' = claims
              /\ acq' = NewAcq
              /\ procs' = procs]_vars

\* C33 witness: a second acquisition of the object, after a create call
\* that failed, has created its claim, seen the Ready event and spawned
\* its one subprocess.
C33_Witness ==
    /\ hist.enters = 2
    /\ pc = "tunnel_loop"
    /\ acq.created /\ acq.ready_seen
    /\ acq.spawns = 1
    /\ Len(procs) = 1

\* the acquisition is under way: __enter__ has not returned or raised
Acquiring == pc \in {"wait_ready", "wait_gateway", "tunnel_loop"}

\* C34: when each watch stream ends with its timeout, every acquisition
\* eventually terminates, by returning a ready session or by raising, and
\* the wait loop of the tunnel always exits through success, crash
\* detection or expiry of the port-forward timeout.
C34_LoopExitsThreeWays ==
    /\ Acquiring ~> (pc = "idle")
    /\ (pc = "tunnel_loop")
           ~> (pc = "idle" /\ result \in {"ok", "tunnel_crashed", "tunnel_timeout"})

\* Termination alone: every acquisition ends, and the wait loop of the
\* tunnel exits in one of the three ways or by a connection error that is
\* neither a refusal nor a timeout.
AcquisitionTerminates ==
    /\ Acquiring ~> (pc = "idle")
    /\ (pc = "tunnel_loop")
           ~> (pc = "idle" /\ result \in {"ok", "tunnel_crashed", "tunnel_timeout",
                                          "connect_error"})

\* C35: under any interleaving of concurrent initialize_tracer calls the
\* global tracer provider is constructed, installed and registered for
\* shutdown at most once; the service name of the first initialization is
\* kept, and a later call with another service name leaves the provider
\* as it is.
C35_ProviderInitializedOnce ==
    [][/\ tracer_provider'.constructed <= 1
       /\ tracer_provider'.installed <= 1
       /\ tracer_provider'.registered <= 1
       /\ tracer_provider.provider # NULL =>
              tracer_provider'.provider = tracer_provider.provider]_vars

\* C35 witness: two threads are past the first check with different
\* service names, and the provider of the one is installed while the
\* other waits for the lock.
C35_Witness ==
    /\ tracer_provider.installed = 1
    /\ tracer_provider.provider = "agent"
    /\ \E t \in Threads :
           /\ initializing[t].pc = "lock"
           /\ initializing[t].service_name = "sandbox-client"

\* C36: after a session has been released no transport operation sends an
\* HTTP request: a call of run, write, read, list or exists on a released
\* session ends without an attempt on the network, in every connectivity
\* mode.
C36_ReleasedSessionSendsNothing ==
    [][(result = "ok" /\ acq.released /\ last_request' # last_request)
           => last_request'.sent = 0]_vars

\* C37: on a client object configured with neither URL nor gateway, every
\* acquisition that returns successfully, the first and every later one,
\* leaves the session with a live tunnel subprocess that was spawned during
\* that acquisition and whose port is in base_url; a later acquisition so
\* never reuses the base_url of a tunnel that a release terminated.
C37_AcquisitionOwnsLiveTunnel ==
    [][(/\ ~Truthy(api_url) /\ ~Truthy(gateway_name)
        /\ pc # "idle" /\ pc' = "idle" /\ result' = "ok")
           => /\ acq'.spawns = 1
              /\ port_forward_process' = Len(procs')
              /\ procs'[port_forward_process'].status = "running"
              /\ base_url' = TunnelUrl(procs'[port_forward_process'].port)]_vars

\* C38: the session issues a claim delete call only for a claim name whose
\* create call by this session succeeded; after a failed create, a name
\* conflict with the claim of another session included, no later operation
\* of the session, release included, deletes a claim it did not create.
C38_DeletesOnlyCreatedClaims ==
    /\ hist.deleted \subseteq hist.created
    /\ ForeignClaims \ hist.created \subseteq claims

\* C39: in tunnel mode, whenever the acquisition returns successfully, the
\* listener that accepted the probe connection on the local port is the
\* tunnel subprocess of the session: no other local process that took the
\* port between the free-port probe and the start of the subprocess is
\* taken for the tunnel.
C39_ProbeAcceptedByOwnTunnel ==
    [][(pc = "tunnel_loop" /\ pc' = "idle" /\ result' = "ok")
           => /\ procs[port_forward_process].status = "running"
              /\ procs[port_forward_process].listening
              /\ ~procs[port_forward_process].foreign]_vars

====
